---- MODULE Spec2Model ----
(***************************************************************************)
(* Intent Gatekeeper (pre-action policy check) and audit trail (ledger,    *)
(* intent map, lessons) of the orchestration hooks.                        *)
(*                                                                         *)
(* Strings are sequences of tokens.  A token is one character, or one of   *)
(* the fixed literal fragments the code tests for with startsWith or       *)
(* builds with a template literal ("intent:", "*** Add File: ", "sha256:", *)
(* the fixed parts of an error message).                                   *)
(***************************************************************************)
EXTENDS Integers, Sequences, FiniteSets, TLC

VARIABLES
    activeIntentId,   \* task.activeIntentId: None (undefined) or Some(id)
    intentsFile,      \* .orchestration/active_intents.yaml
    orchIgnore,       \* .orchestration/.intentignore
    rootIgnore,       \* <cwd>/.intentignore
    disk,             \* target files of the workspace, by resolved path
    pc,               \* caller position: "idle" or "checked"
    call,             \* the HookContext handed to the last check
    result,           \* the HookResult the last check returned
    prompts,          \* the override prompts of the last check: message shown, answer given
    reads,            \* files the last check read
    pushed,           \* the tool result pushed for a denied call: formatError's JSON text
    trace,            \* .orchestration/agent_trace.jsonl, as its text
    priorTrace,       \* the text of agent_trace.jsonl before the first call
    appended,         \* the trace calls whose appendFile succeeded, in order
    intentMap,        \* .orchestration/intent_map.md
    agentMd,          \* .orchestration/AGENT.md, as its text
    post,             \* the last post-hook call: hook, params, outcome, file operations, log
    history,          \* the task so far: whether a select succeeded, the earlier identical checks
    running           \* the index updates in flight, each with what it has read so far

gateVars == <<activeIntentId, intentsFile, orchIgnore, rootIgnore, disk, pc, call, result, prompts, reads, pushed>>

auditVars == <<trace, priorTrace, appended, intentMap, agentMd, post, history, running>>

vars == <<gateVars, auditVars>>

-----------------------------------------------------------------------------
(* Optional values: undefined is the empty sequence.                       *)

None == <<>>

Some(v) == <<v>>

IsSome(o) == Len(o) = 1

Get(o) == o[1]

-----------------------------------------------------------------------------
(* Bounds of the model.                                                    *)

MaxPatchLines == 2

\* trace lines appended in one run of the ledger specification
MaxRecords == 2

-----------------------------------------------------------------------------
(* String helpers.                                                         *)

Whitespace == {" ", "\t"}

RECURSIVE TrimStart(_)
TrimStart(s) ==
    IF s # <<>> /\ Head(s) \in Whitespace THEN TrimStart(Tail(s)) ELSE s

RECURSIVE TrimEnd(_)
TrimEnd(s) ==
    IF s # <<>> /\ s[Len(s)] \in Whitespace THEN TrimEnd(SubSeq(s, 1, Len(s) - 1)) ELSE s

Trim(s) == TrimEnd(TrimStart(s))

Includes(s, sub) ==
    \E i \in 1..(Len(s) - Len(sub) + 1) : SubSeq(s, i, i + Len(sub) - 1) = sub

\* filePath.replace(/\\/g, "/").replace(/^\.\//, "")
normalizePath(filePath) ==
    LET slashed == [i \in 1..Len(filePath) |-> IF filePath[i] = "\\" THEN "/" ELSE filePath[i]]
    IN  IF Len(slashed) >= 2 /\ slashed[1] = "." /\ slashed[2] = "/"
        THEN SubSeq(slashed, 3, Len(slashed))
        ELSE slashed

-----------------------------------------------------------------------------
(* Glob matching: the pattern is compiled to a regular expression whose    *)
(* items are ".*", "[^/]*", a backslash followed by the character it       *)
(* escapes, or a character.  Of the characters that are special in a       *)
(* regular expression only "." can be told from a literal by the paths of  *)
(* the model: unescaped it matches any character but a line break.         *)

RegexMetaChars == {".", "+", "?", "^", "$", "{", "}", "(", ")", "|", "[", "]", "\\"}

\* normalizedPattern.replace(/[.+?^${}()|[\]\\]/g, "\\$&")
RECURSIVE escaped(_)
escaped(p) ==
    IF p = <<>> THEN <<>>
    ELSE IF Head(p) \in RegexMetaChars THEN <<"\\", Head(p)>> \o escaped(Tail(p))
    ELSE <<Head(p)>> \o escaped(Tail(p))

DoubleStarRx == ".*"

SingleStarRx == "[^/]*"

doubleStarToken == "__DOUBLE_STAR__"

\* .replace(/\*\*/g, token): leftmost, non-overlapping pairs of stars
RECURSIVE ReplaceDoubleStars(_)
ReplaceDoubleStars(p) ==
    IF p = <<>> THEN <<>>
    ELSE IF Len(p) >= 2 /\ p[1] = "*" /\ p[2] = "*"
         THEN <<doubleStarToken>> \o ReplaceDoubleStars(SubSeq(p, 3, Len(p)))
         ELSE <<Head(p)>> \o ReplaceDoubleStars(Tail(p))

\* .replace(/\*/g, "[^/]*").replace(new RegExp(token, "g"), ".*")
regexPattern(p) ==
    LET t == ReplaceDoubleStars(p)
    IN  [i \in 1..Len(t) |->
            IF t[i] = "*" THEN SingleStarRx
            ELSE IF t[i] = doubleStarToken THEN DoubleStarRx
            ELSE t[i]]

\* new RegExp("^" + rx + "$").test(s)
RECURSIVE RegexTest(_, _)
RegexTest(rx, s) ==
    IF rx = <<>> THEN s = <<>>
    ELSE IF Head(rx) = DoubleStarRx
         THEN \E k \in 0..Len(s) :
                 /\ \A i \in 1..k : s[i] # "\n"
                 /\ RegexTest(Tail(rx), SubSeq(s, k + 1, Len(s)))
    ELSE IF Head(rx) = SingleStarRx
         THEN \E k \in 0..Len(s) :
                 /\ \A i \in 1..k : s[i] # "/"
                 /\ RegexTest(Tail(rx), SubSeq(s, k + 1, Len(s)))
    ELSE IF Head(rx) = "\\"
         THEN /\ Len(rx) >= 2 /\ s # <<>> /\ Head(s) = rx[2]
              /\ RegexTest(SubSeq(rx, 3, Len(rx)), Tail(s))
    ELSE IF Head(rx) = "."
         THEN s # <<>> /\ Head(s) # "\n" /\ RegexTest(Tail(rx), Tail(s))
    ELSE s # <<>> /\ Head(s) = Head(rx) /\ RegexTest(Tail(rx), Tail(s))

matchesPattern(targetPath, pattern) ==
    LET normalizedTarget == normalizePath(targetPath)
        normalizedPattern == normalizePath(pattern)
    IN  IF ~(\E i \in 1..Len(normalizedPattern) : normalizedPattern[i] = "*")
        THEN normalizedTarget = normalizedPattern
        ELSE RegexTest(regexPattern(escaped(normalizedPattern)), normalizedTarget)

matchesAnyPattern(targetPath, patterns) ==
    \E i \in 1..Len(patterns) : matchesPattern(targetPath, patterns[i])

-----------------------------------------------------------------------------
(* Tool catalogue.                                                         *)

TOOLS_REQUIRING_INTENT ==
    {"write_to_file", "edit", "edit_file", "search_replace", "apply_diff", "apply_patch",
     "execute_command"}

EXEMPT_TOOLS ==
    {"select_active_intent", "read_file", "list_files", "search_files", "codebase_search",
     "read_command_output", "ask_followup_question", "switch_mode", "new_task",
     "update_todo_list", "attempt_completion", "use_mcp_tool", "access_mcp_resource",
     "run_slash_command", "skill", "generate_image"}

TOOLS_WITH_CONTENT_HASH_CHECK ==
    {"write_to_file", "apply_diff", "edit_file", "edit", "search_replace"}

\* mutant: the paths of deleted files are not extracted
PATCH_FILE_MARKERS_NoDelete == {"*** Add File: ", "*** Update File: "}

PATCH_FILE_MARKERS == {"*** Add File: ", "*** Delete File: ", "*** Update File: "}

\* mutant: apply_patch left out of the tools that require an intent
classifyTool_PatchForgotten(toolName) ==
    IF toolName \in EXEMPT_TOOLS THEN "safe"
    ELSE IF toolName \in TOOLS_REQUIRING_INTENT \ {"apply_patch"} THEN "destructive"
    ELSE "safe"

\* mutant: a tool in neither list is treated as destructive
classifyTool_UnknownDestructive(toolName) ==
    IF toolName \in EXEMPT_TOOLS THEN "safe" ELSE "destructive"

classifyTool(toolName) ==
    IF toolName \in EXEMPT_TOOLS THEN "safe"
    ELSE IF toolName \in TOOLS_REQUIRING_INTENT THEN "destructive"
    ELSE "safe"

-----------------------------------------------------------------------------
(* Content digest.  SHA-256 is taken to be collision free on the contents  *)
(* of the model: every content has its own hex digest.                     *)

Contents == {<<>>, <<"1">>, <<"9">>}

HexDigest(content) ==
    CASE content = <<>>    -> "e3b0c442"
      [] content = <<"1">> -> "6b86b273"
      [] content = <<"9">> -> "19581e27"
      [] content = <<"1", "\n">> -> "4355a46b"

\* mutant: the digest is returned without its scheme prefix
contentHashSha256_NoPrefix(content) == <<HexDigest(content)>>

contentHashSha256(content) == <<"sha256:", HexDigest(content)>>

-----------------------------------------------------------------------------
(* Files on disk.  A file is missing, unreadable (exists, but readFile     *)
(* fails) or has a content.                                                *)

Missing == [exists |-> FALSE, readable |-> FALSE, content |-> <<>>]

Unreadable == [exists |-> TRUE, readable |-> FALSE, content |-> <<>>]

File(content) == [exists |-> TRUE, readable |-> TRUE, content |-> content]

cwd == <<"w">>

RECURSIVE SplitSegments(_, _)
SplitSegments(p, cur) ==
    IF p = <<>> THEN <<cur>>
    ELSE IF Head(p) = "/" THEN <<cur>> \o SplitSegments(Tail(p), <<>>)
    ELSE SplitSegments(Tail(p), Append(cur, Head(p)))

RECURSIVE ResolveSegments(_, _)
ResolveSegments(segs, stack) ==
    IF segs = <<>> THEN stack
    ELSE LET seg == Head(segs)
         IN  IF seg = <<>> \/ seg = <<".">> THEN ResolveSegments(Tail(segs), stack)
             ELSE IF seg = <<".", ".">>
                  THEN ResolveSegments(Tail(segs),
                                       IF stack = <<>> THEN stack
                                       ELSE SubSeq(stack, 1, Len(stack) - 1))
             ELSE ResolveSegments(Tail(segs), Append(stack, seg))

\* path.resolve(task.cwd, targetPath): the absolute path as a list of segments
resolve(targetPath) ==
    IF targetPath # <<>> /\ Head(targetPath) = "/"
    THEN ResolveSegments(SplitSegments(targetPath, <<>>), <<>>)
    ELSE ResolveSegments(SplitSegments(targetPath, <<>>), <<cwd>>)

FileAt(d, absolutePath) ==
    IF absolutePath \in DOMAIN d THEN d[absolutePath] ELSE Missing

-----------------------------------------------------------------------------
(* The intent store: what fs.readFile and yaml.parse give for              *)
(* active_intents.yaml.                                                    *)
(*   kind "missing", "unreadable", "parse_error": loadIntents catches the  *)
(*        exception and returns undefined;                                 *)
(*   kind "empty": the document parses to null;                            *)
(*   kind "no_key": a document without active_intents;                     *)
(*   kind "not_a_list": active_intents is a scalar, which has no find;     *)
(*   kind "list": active_intents is the list `entries`.                    *)
(* An entry is null, or a mapping with an optional id and owned_scope.     *)

NullEntry == [isNull |-> TRUE, id |-> None, owned_scope |-> None]

Intent(id, scope) == [isNull |-> FALSE, id |-> id, owned_scope |-> scope]

IntentsPath == <<cwd, <<".orchestration">>, <<"active_intents.yaml">>>>

OrchIgnorePath == <<cwd, <<".orchestration">>, <<".intentignore">>>>

RootIgnorePath == <<cwd, <<".intentignore">>>>

\* mutant: the store read by the first of a run of identical checks is kept for the later ones
loadIntents_Cached(file) ==
    LET cached == IF history.checks = <<>> THEN file ELSE history.checks[1].intentsFile
    IN  IF cached.kind \in {"missing", "unreadable", "parse_error"} THEN None ELSE Some(cached)

\* loadIntents: the parsed document or undefined
loadIntents(file) ==
    IF file.kind \in {"missing", "unreadable", "parse_error"} THEN None ELSE Some(file)

ToUpper(id) == [i \in 1..Len(id) |-> IF id[i] = "a" THEN "A" ELSE id[i]]

\* mutant: the id is compared without regard to letter case
findActiveIntent_IgnoreCase(intentsData, id) ==
    LET doc == IF IsSome(intentsData) THEN Get(intentsData) ELSE [kind |-> "empty", entries |-> <<>>]
        activeIntents == IF doc.kind = "list" THEN doc.entries ELSE <<>>
        stops == {i \in 1..Len(activeIntents) :
                     \/ activeIntents[i].isNull
                     \/ /\ IsSome(activeIntents[i].id)
                        /\ ToUpper(Get(activeIntents[i].id)) = ToUpper(id)}
        first == CHOOSE i \in stops : \A j \in stops : i <= j
    IN  IF doc.kind = "not_a_list"
        THEN [threw |-> TRUE, found |-> FALSE, intent |-> NullEntry]
        ELSE IF stops = {}
        THEN [threw |-> FALSE, found |-> FALSE, intent |-> NullEntry]
        ELSE IF activeIntents[first].isNull
        THEN [threw |-> TRUE, found |-> FALSE, intent |-> NullEntry]
        ELSE [threw |-> FALSE, found |-> TRUE, intent |-> activeIntents[first]]

\* intentsData?.active_intents || []   followed by   .find(intent => intent.id === id)
\* threw: the callback dereferenced a null entry, or active_intents has no find
findActiveIntent(intentsData, id) ==
    LET doc == IF IsSome(intentsData) THEN Get(intentsData) ELSE [kind |-> "empty", entries |-> <<>>]
        activeIntents == IF doc.kind = "list" THEN doc.entries ELSE <<>>
        stops == {i \in 1..Len(activeIntents) :
                     activeIntents[i].isNull \/ activeIntents[i].id = Some(id)}
        first == CHOOSE i \in stops : \A j \in stops : i <= j
    IN  IF doc.kind = "not_a_list"
        THEN [threw |-> TRUE, found |-> FALSE, intent |-> NullEntry]
        ELSE IF stops = {}
        THEN [threw |-> FALSE, found |-> FALSE, intent |-> NullEntry]
        ELSE IF activeIntents[first].isNull
        THEN [threw |-> TRUE, found |-> FALSE, intent |-> NullEntry]
        ELSE [threw |-> FALSE, found |-> TRUE, intent |-> activeIntents[first]]

-----------------------------------------------------------------------------
(* The exclusion policy.  An ignore file is None (readFile fails) or       *)
(* Some(lines).                                                            *)

EmptyPolicy == [ignoredIntents |-> {}, ignoredPathPatterns |-> <<>>]

\* mutant: an intent: line without an id is kept as a path pattern
RECURSIVE parseIntentIgnoreContent_EmptyIdIsPattern(_, _)
parseIntentIgnoreContent_EmptyIdIsPattern(lines, policy) ==
    IF lines = <<>> THEN policy
    ELSE LET line == Trim(Head(lines))
             rest == Tail(lines)
         IN  IF line = <<>> \/ Head(line) = "#"
             THEN parseIntentIgnoreContent_EmptyIdIsPattern(rest, policy)
             ELSE IF Head(line) = "intent:" /\ Trim(Tail(line)) # <<>>
             THEN parseIntentIgnoreContent_EmptyIdIsPattern(rest,
                      [policy EXCEPT !.ignoredIntents = @ \cup {Trim(Tail(line))}])
             ELSE parseIntentIgnoreContent_EmptyIdIsPattern(rest,
                      [policy EXCEPT !.ignoredPathPatterns = Append(@, normalizePath(line))])

RECURSIVE parseIntentIgnoreContent(_, _)
parseIntentIgnoreContent(lines, policy) ==
    IF lines = <<>> THEN policy
    ELSE LET line == Trim(Head(lines))
             rest == Tail(lines)
         IN  IF line = <<>> \/ Head(line) = "#"
             THEN parseIntentIgnoreContent(rest, policy)
             ELSE IF Head(line) = "intent:"
             THEN LET intentId == Trim(Tail(line))
                  IN  IF intentId # <<>>
                      THEN parseIntentIgnoreContent(rest,
                               [policy EXCEPT !.ignoredIntents = @ \cup {intentId}])
                      ELSE parseIntentIgnoreContent(rest, policy)
             ELSE parseIntentIgnoreContent(rest,
                      [policy EXCEPT !.ignoredPathPatterns = Append(@, normalizePath(line))])

\* mutant: only .orchestration/.intentignore is read
readIntentIgnorePolicy_OrchOnly(orch, root) ==
    IF IsSome(orch) THEN parseIntentIgnoreContent(Get(orch), EmptyPolicy) ELSE EmptyPolicy

readIntentIgnorePolicy(orch, root) ==
    LET p1 == IF IsSome(orch) THEN parseIntentIgnoreContent(Get(orch), EmptyPolicy) ELSE EmptyPolicy
    IN  IF IsSome(root) THEN parseIntentIgnoreContent(Get(root), p1) ELSE p1

-----------------------------------------------------------------------------
(* Target paths of a tool call.  nativeArgs and params hold optional       *)
(* strings; a patch is a sequence of lines.                                *)

\* nativeArgs?.[key] ?? params?.[key], undefined when blank, else normalizePath(value)
getPath(toolUse, key) ==
    LET value == IF IsSome(toolUse.nativeArgs[key]) THEN toolUse.nativeArgs[key]
                 ELSE toolUse.params[key]
    IN  IF ~IsSome(value) \/ Trim(Get(value)) = <<>> THEN None
        ELSE Some(normalizePath(Get(value)))

RECURSIVE extractPathsFromPatch(_)
extractPathsFromPatch(patchLines) ==
    IF patchLines = <<>> THEN <<>>
    ELSE LET line == Head(patchLines)
             filePath == Trim(Tail(line))
         IN  IF line # <<>> /\ Head(line) \in PATCH_FILE_MARKERS /\ filePath # <<>>
             THEN <<normalizePath(filePath)>> \o extractPathsFromPatch(Tail(patchLines))
             ELSE extractPathsFromPatch(Tail(patchLines))

\* mutant: a tool outside the switch takes its target from the path argument
getTargetPathsForTool_AnyToolHasPath(toolName, toolUse) ==
    IF toolName \in {"edit", "edit_file", "search_replace"}
    THEN LET p == getPath(toolUse, "file_path")
         IN  IF IsSome(p) /\ Get(p) # <<>> THEN <<Get(p)>> ELSE <<>>
    ELSE IF toolName = "apply_patch"
    THEN LET patch == IF IsSome(toolUse.nativeArgs.patch) THEN toolUse.nativeArgs.patch
                      ELSE toolUse.params.patch
         IN  IF IsSome(patch) THEN extractPathsFromPatch(Get(patch)) ELSE <<>>
    ELSE LET p == getPath(toolUse, "path")
         IN  IF IsSome(p) /\ Get(p) # <<>> THEN <<Get(p)>> ELSE <<>>

getTargetPathsForTool(toolName, toolUse) ==
    IF toolName \in {"write_to_file", "apply_diff"}
    THEN LET p == getPath(toolUse, "path")
         IN  IF IsSome(p) /\ Get(p) # <<>> THEN <<Get(p)>> ELSE <<>>
    ELSE IF toolName \in {"edit", "edit_file", "search_replace"}
    THEN LET p == getPath(toolUse, "file_path")
         IN  IF IsSome(p) /\ Get(p) # <<>> THEN <<Get(p)>> ELSE <<>>
    ELSE IF toolName = "apply_patch"
    THEN LET patch == IF IsSome(toolUse.nativeArgs.patch) THEN toolUse.nativeArgs.patch
                      ELSE toolUse.params.patch
         IN  IF IsSome(patch) THEN extractPathsFromPatch(Get(patch)) ELSE <<>>
    ELSE <<>>

-----------------------------------------------------------------------------
(* Results and messages.                                                   *)

INTENT_REQUIRED_ERROR == <<"You must cite a valid active Intent ID.">>

IntentIgnoredMessage(id) == <<"Intent ">> \o id \o <<" is excluded by .intentignore.">>

IntentMismatchMessage(callIntentId, id) ==
    <<"write_to_file intent_id (">> \o callIntentId
        \o <<") does not match selected active intent (">> \o id
        \o <<"). Call select_active_intent first or use the same intent_id.">>

PathBlockedMessage(targetPath) == <<"Path ">> \o targetPath \o <<" is blocked by .intentignore.">>

ScopeViolationMessage(id, targetPath) ==
    <<"Scope Violation: ">> \o id \o <<" is not authorized to edit [">> \o targetPath
        \o <<"]. Request scope expansion.">>

StaleFileMessage(targetPath) ==
    <<"Stale File: ">> \o targetPath
        \o <<" was modified since you read it. Re-read the file with read_file and try again.">>

HitlMessage(errorMessage) == errorMessage \o <<" This action may be destructive. Proceed anyway?">>

\* the kinds of a denial
HookErrorType ==
    {"MISSING_OR_INVALID_INTENT", "SCOPE_VIOLATION", "INTENT_IGNORED",
     "INTENTIGNORE_PATH_BLOCKED", "HOOK_BLOCKED", "STALE_FILE"}

NoResult ==
    [threw |-> FALSE, allow |-> FALSE, error |-> None, classification |-> None,
     errorType |-> None, recoverable |-> None, actionHint |-> None]

allowed(classification) ==
    [threw |-> FALSE, allow |-> TRUE, error |-> None, classification |-> Some(classification),
     errorType |-> None, recoverable |-> None, actionHint |-> None]

denied(error, classification, errorType, actionHint) ==
    [threw |-> FALSE, allow |-> FALSE, error |-> Some(error),
     classification |-> Some(classification), errorType |-> Some(errorType),
     recoverable |-> Some(TRUE), actionHint |-> Some(actionHint)]

thrown == [NoResult EXCEPT !.threw = TRUE]

-----------------------------------------------------------------------------
(* JSON text, as JSON.stringify writes it and JSON.parse reads it.  The    *)
(* punctuation and the member names ("\"status\":") are tokens of their    *)
(* own, a string literal is its characters between two quote tokens, with  *)
(* the escapes of JSON.stringify as tokens of their own.                   *)

Quote == "\""

JsonEscapeToken(t) ==
    CASE t = "\"" -> "\\\""
      [] t = "\\" -> "\\\\"
      [] t = "\n" -> "\\n"
      [] OTHER    -> t

JsonUnescapeToken(t) ==
    CASE t = "\\\"" -> "\""
      [] t = "\\\\" -> "\\"
      [] t = "\\n"  -> "\n"
      [] OTHER      -> t

\* mutant: the string is written between quotes as it is
JsonString_Raw(str) == <<Quote>> \o str \o <<Quote>>

\* JSON.stringify of a string
JsonString(str) == <<Quote>> \o [i \in 1..Len(str) |-> JsonEscapeToken(str[i])] \o <<Quote>>

\* the positions of text inside a string literal (the closing quote included)
JsonInString(text) ==
    LET quotes == {k \in 1..Len(text) : text[k] = Quote}
    IN  {i \in 1..Len(text) : Cardinality({q \in quotes : q < i}) % 2 = 1}

\* JSON.parse accepts the text: strings closed, no raw line break or backslash in a
\* string, brackets balanced, one object and nothing after it
JsonValid(text) ==
    LET inside == JsonInString(text)
        opens  == {k \in 1..Len(text) : text[k] \in {"{", "["} /\ k \notin inside}
        closes == {k \in 1..Len(text) : text[k] \in {"}", "]"} /\ k \notin inside}
        depth(i) == Cardinality({k \in opens : k <= i}) - Cardinality({k \in closes : k <= i})
    IN  /\ text # <<>> /\ text[1] = "{"
        /\ Cardinality({k \in 1..Len(text) : text[k] = Quote}) % 2 = 0
        /\ \A i \in inside : text[i] # Quote => text[i] \notin {"\n", "\\"}
        /\ \A i \in opens \cup closes : depth(i) >= 0 /\ (depth(i) = 0 <=> i = Len(text))
        /\ Len(text) \in closes

\* the characters of the string literal that opens at text[i - 1]
RECURSIVE JsonReadString(_, _)
JsonReadString(text, i) ==
    IF i > Len(text) \/ text[i] = Quote THEN <<>>
    ELSE <<JsonUnescapeToken(text[i])>> \o JsonReadString(text, i + 1)

\* a parsed member value: a string, or a literal (true, false, null, a number)
JsonStr(str) == Some([string |-> TRUE, value |-> str])

JsonLit(t) == Some([string |-> FALSE, value |-> <<t>>])

\* the value of the member called name in a parsed text; None when there is none
JsonMember(text, name) ==
    LET at == {i \in 1..Len(text) : text[i] = name}
    IN  IF at = {} THEN None
        ELSE LET i == CHOOSE k \in at : \A m \in at : k <= m
             IN  IF i + 1 > Len(text) THEN None
                 ELSE IF text[i + 1] = Quote THEN JsonStr(JsonReadString(text, i + 2))
                 ELSE JsonLit(text[i + 1])

NoMetadata == [errorType |-> None, recoverable |-> None, actionHint |-> None, classification |-> None]

\* mutant: without metadata the payload has no error_type and no action_hint
formatError_NoDefaults(error, metadata) ==
    <<"{", "\"status\":">> \o JsonString(<<"error">>)
        \o <<",", "\"message\":">> \o JsonString(<<"The tool execution failed">>)
        \o <<",", "\"error\":">> \o JsonString(error)
        \o (IF IsSome(metadata.errorType)
            THEN <<",", "\"error_type\":">> \o JsonString(<<Get(metadata.errorType)>>) ELSE <<>>)
        \o <<",", "\"recoverable\":",
             IF IsSome(metadata.recoverable) /\ ~Get(metadata.recoverable) THEN "false" ELSE "true">>
        \o (IF IsSome(metadata.actionHint)
            THEN <<",", "\"action_hint\":">> \o JsonString(<<Get(metadata.actionHint)>>) ELSE <<>>)
        \o <<"}">>

\* IntentGatekeeperHook.formatError: the JSON text pushed as the tool result
formatError(error, metadata) ==
    <<"{", "\"status\":">> \o JsonString(<<"error">>)
        \o <<",", "\"message\":">> \o JsonString(<<"The tool execution failed">>)
        \o <<",", "\"error\":">> \o JsonString(error)
        \o <<",", "\"error_type\":">>
        \o JsonString(<<IF IsSome(metadata.errorType) THEN Get(metadata.errorType)
                        ELSE "MISSING_OR_INVALID_INTENT">>)
        \o <<",", "\"recoverable\":",
             IF IsSome(metadata.recoverable) /\ ~Get(metadata.recoverable) THEN "false" ELSE "true">>
        \o <<",", "\"action_hint\":">>
        \o JsonString(<<IF IsSome(metadata.actionHint) THEN Get(metadata.actionHint)
                        ELSE "select_active_intent">>)
        \o (IF IsSome(metadata.classification)
            THEN <<",", "\"classification\":">> \o JsonString(<<Get(metadata.classification)>>)
            ELSE <<>>)
        \o <<"}">>

-----------------------------------------------------------------------------
(* The override channel.  context.askForAuthorization is "none" (not       *)
(* supplied), or a callback that resolves to true ("yes") or false ("no"). *)
(* Without a callback the VS Code modal is shown; its choice is "Approve", *)
(* "Reject" or "dismissed".                                                *)

ModalChoices == {"Approve", "Reject", "dismissed"}

\* the modal is shown only when the context carries no callback
ModalChoicesFor(context) ==
    IF context.askForAuthorization = "none" THEN ModalChoices ELSE {"dismissed"}

\* mutant: the callback is ignored, only the modal decides
requestHitlForDestructiveDenial_ModalOnly(context, errorMessage, choice) ==
    choice = "Approve"

\* mutant: without a callback nobody is asked and the denial stands
requestHitlForDestructiveDenial_NoChannelDenies(context, errorMessage, choice) ==
    context.askForAuthorization = "yes"

requestHitlForDestructiveDenial(context, errorMessage, choice) ==
    IF context.askForAuthorization # "none"
    THEN context.askForAuthorization = "yes"
    ELSE choice = "Approve"

\* mutant: a rejected prompt is shown a second time before the denial is returned
HitlOrDeny_AsksAgain(context, choice, error, errorType, actionHint, rd) ==
    LET answer == IF context.askForAuthorization # "none"
                  THEN context.askForAuthorization ELSE choice
        prompt == [message |-> HitlMessage(error), answer |-> answer]
    IN  [result  |-> IF requestHitlForDestructiveDenial(context, error, choice)
                     THEN allowed("destructive")
                     ELSE denied(error, "destructive", errorType, actionHint),
         prompts |-> IF requestHitlForDestructiveDenial(context, error, choice)
                     THEN <<prompt>> ELSE <<prompt, prompt>>,
         reads   |-> rd]

\* one denial step of check: prompt, then allow or deny
HitlOrDeny(context, choice, error, errorType, actionHint, rd) ==
    [result  |-> IF requestHitlForDestructiveDenial(context, error, choice)
                 THEN allowed("destructive")
                 ELSE denied(error, "destructive", errorType, actionHint),
     prompts |-> <<[message |-> HitlMessage(error),
                    answer  |-> IF context.askForAuthorization # "none"
                                THEN context.askForAuthorization ELSE choice]>>,
     reads   |-> rd]

-----------------------------------------------------------------------------
(* Phase 4: the stale-file check.                                          *)

\* mutant: a target that is missing or cannot be read counts as modified
FirstStale_AbsentIsStale(targetPaths, normalizedExpected) ==
    LET stale == {i \in 1..Len(targetPaths) :
                     LET f == FileAt(disk, resolve(targetPaths[i]))
                     IN  \/ ~f.exists
                         \/ ~f.readable
                         \/ contentHashSha256(f.content) # normalizedExpected}
    IN  IF stale = {} THEN 0 ELSE CHOOSE i \in stale : \A j \in stale : i <= j

\* index of the first target that exists, can be read and has another digest; 0 if none
FirstStale(targetPaths, normalizedExpected) ==
    LET stale == {i \in 1..Len(targetPaths) :
                     LET f == FileAt(disk, resolve(targetPaths[i]))
                     IN  /\ f.exists
                         /\ f.readable
                         /\ contentHashSha256(f.content) # normalizedExpected}
    IN  IF stale = {} THEN 0 ELSE CHOOSE i \in stale : \A j \in stale : i <= j

checkStaleFile(context) ==
    LET targetPaths == getTargetPathsForTool(context.toolName, context.toolUse)
        expectedHash == context.toolUse.nativeArgs.expected_content_hash
        normalizedExpected == Trim(Get(expectedHash))
        first == FirstStale(targetPaths, normalizedExpected)
        last == IF first = 0 THEN Len(targetPaths) ELSE first
        rd == {resolve(targetPaths[i]) : i \in {j \in 1..last :
                                                   FileAt(disk, resolve(targetPaths[j])).exists}}
    IN  IF context.toolName \notin TOOLS_WITH_CONTENT_HASH_CHECK
        THEN [result |-> allowed("destructive"), reads |-> {}]
        ELSE IF Len(targetPaths) = 0
        THEN [result |-> allowed("destructive"), reads |-> {}]
        ELSE IF ~IsSome(expectedHash) \/ Trim(Get(expectedHash)) = <<>>
        THEN [result |-> allowed("destructive"), reads |-> {}]
        ELSE IF first = 0
        THEN [result |-> allowed("destructive"), reads |-> rd]
        ELSE [result |-> denied(StaleFileMessage(targetPaths[first]), "destructive",
                                "STALE_FILE", "read_file"),
              reads |-> rd]

-----------------------------------------------------------------------------
(* IntentGatekeeperHook.check                                              *)

\* mutant: ignore patterns are compared literally, globs are not expanded
PathIsIgnored_LiteralOnly(targetPath, policy) ==
    \E i \in 1..Len(policy.ignoredPathPatterns) :
        normalizePath(targetPath) = policy.ignoredPathPatterns[i]

PathIsIgnored(targetPath, policy) == matchesAnyPattern(targetPath, policy.ignoredPathPatterns)

\* mutant: the owned_scope of the intent is never consulted
PathIsOutOfScope_Unscoped(targetPath, scopePatterns) == FALSE

\* mutant: an empty owned_scope authorizes nothing
PathIsOutOfScope_EmptyScopeRejects(targetPath, scopePatterns) ==
    ~matchesAnyPattern(targetPath, scopePatterns)

PathIsOutOfScope(targetPath, scopePatterns) ==
    Len(scopePatterns) > 0 /\ ~matchesAnyPattern(targetPath, scopePatterns)

\* mutant: all targets are tested against the exclusions before any scope test
FirstRejectedPath_IgnoredFirst(targetPaths, policy, scopePatterns) ==
    LET ignored == {i \in 1..Len(targetPaths) : PathIsIgnored(targetPaths[i], policy)}
        outside == {i \in 1..Len(targetPaths) : PathIsOutOfScope(targetPaths[i], scopePatterns)}
    IN  IF ignored # {} THEN CHOOSE i \in ignored : \A j \in ignored : i <= j
        ELSE IF outside # {} THEN CHOOSE i \in outside : \A j \in outside : i <= j
        ELSE 0

\* index of the first target path the loop of check stops at; 0 if it runs to the end
FirstRejectedPath(targetPaths, policy, scopePatterns) ==
    LET rejected == {i \in 1..Len(targetPaths) :
                        \/ PathIsIgnored(targetPaths[i], policy)
                        \/ PathIsOutOfScope(targetPaths[i], scopePatterns)}
    IN  IF rejected = {} THEN 0 ELSE CHOOSE i \in rejected : \A j \in rejected : i <= j

\* mutant: the call's intent_id is compared for every tool
IntentIdMismatch_AnyTool(toolName, callIntentId, id) ==
    IsSome(callIntentId) /\ Get(callIntentId) # id

\* toolName === "write_to_file" && callIntentId !== undefined && callIntentId !== activeIntentId
IntentIdMismatch(toolName, callIntentId, id) ==
    toolName = "write_to_file" /\ IsSome(callIntentId) /\ Get(callIntentId) # id

\* the steps of check after the intent was found in the store
checkWithIntent(context, choice, id, activeIntent) ==
    LET toolName == context.toolName
        rd == {IntentsPath, OrchIgnorePath, RootIgnorePath}
        intentIgnorePolicy == readIntentIgnorePolicy(orchIgnore, rootIgnore)
        callIntentId == context.toolUse.nativeArgs.intent_id
        targetPaths == getTargetPathsForTool(toolName, context.toolUse)
        scopePatterns == IF IsSome(activeIntent.owned_scope) THEN Get(activeIntent.owned_scope)
                         ELSE <<>>
        first == FirstRejectedPath(targetPaths, intentIgnorePolicy, scopePatterns)
        staleCheck == checkStaleFile(context)
    IN  IF id \in intentIgnorePolicy.ignoredIntents
        THEN HitlOrDeny(context, choice, IntentIgnoredMessage(id), "INTENT_IGNORED",
                        "select_active_intent", rd)
        ELSE IF IntentIdMismatch(toolName, callIntentId, id)
        THEN [result  |-> denied(IntentMismatchMessage(Get(callIntentId), id), "destructive",
                                 "HOOK_BLOCKED", "select_active_intent"),
              prompts |-> <<>>,
              reads   |-> rd]
        ELSE IF first # 0 /\ PathIsIgnored(targetPaths[first], intentIgnorePolicy)
        THEN HitlOrDeny(context, choice, PathBlockedMessage(targetPaths[first]),
                        "INTENTIGNORE_PATH_BLOCKED",
                        "update_intentignore_or_choose_different_file", rd)
        ELSE IF first # 0
        THEN HitlOrDeny(context, choice, ScopeViolationMessage(id, targetPaths[first]),
                        "SCOPE_VIOLATION", "request_scope_expansion", rd)
        ELSE IF ~staleCheck.result.allow
        THEN [result |-> staleCheck.result, prompts |-> <<>>, reads |-> rd \cup staleCheck.reads]
        ELSE [result  |-> allowed("destructive"),
              prompts |-> <<>>,
              reads   |-> rd \cup staleCheck.reads]

\* check(context): the returned HookResult, the prompts shown and the files read
check(context, choice) ==
    LET classification == classifyTool(context.toolName)
        found == findActiveIntent(loadIntents(intentsFile), Get(activeIntentId))
    IN  IF classification = "safe"
        THEN [result |-> allowed("safe"), prompts |-> <<>>, reads |-> {}]
        ELSE IF ~IsSome(activeIntentId) \/ Get(activeIntentId) = <<>>
        THEN HitlOrDeny(context, choice, INTENT_REQUIRED_ERROR, "MISSING_OR_INVALID_INTENT",
                        "select_active_intent", {})
        ELSE IF found.threw
        THEN [result |-> thrown, prompts |-> <<>>, reads |-> {IntentsPath}]
        ELSE IF ~found.found
        THEN HitlOrDeny(context, choice, INTENT_REQUIRED_ERROR, "MISSING_OR_INVALID_INTENT",
                        "select_active_intent", {IntentsPath})
        ELSE checkWithIntent(context, choice, Get(activeIntentId), found.intent)

-----------------------------------------------------------------------------
(* The agent trace ledger: runAgentTracePostHook.                          *)
(* A post-hook call gives its outcome ("returned" or "threw"), the file    *)
(* operations it made, what it logged with console.error, and the file it  *)
(* leaves behind.                                                          *)

OrchestrationDir == <<cwd, <<".orchestration">>>>

TracePath == <<cwd, <<".orchestration">>, <<"agent_trace.jsonl">>>>

FileOp(op, path) == [op |-> op, path |-> path]

\* content.split("\n").length
LineCount(content) == Cardinality({i \in 1..Len(content) : content[i] = "\n"}) + 1

\* task.api?.getModel?.()?.id ?? "unknown"
modelId(model) == IF IsSome(model) THEN Get(model) ELSE <<"unknown">>

\* the AgentTraceEntry of a write
AgentTraceEntry(id, timestamp, revisionId, relPath, taskId, model, endLine, contentHash, intentId) ==
    [id |-> id, timestamp |-> timestamp, revision_id |-> revisionId, relative_path |-> relPath,
     url |-> taskId, model_identifier |-> model, start_line |-> 1, end_line |-> endLine,
     content_hash |-> contentHash, value |-> intentId]

\* JSON.stringify(entry)
StringifyEntry(entry) ==
    <<"{", "\"id\":">> \o JsonString(entry.id)
        \o <<",", "\"timestamp\":">> \o JsonString(entry.timestamp)
        \o <<",", "\"vcs\":", "{", "\"revision_id\":">>
        \o (IF IsSome(entry.revision_id) THEN JsonString(Get(entry.revision_id)) ELSE <<"null">>)
        \o <<"}", ",", "\"files\":", "[", "{", "\"relative_path\":">>
        \o JsonString(entry.relative_path)
        \o <<",", "\"conversations\":", "[", "{", "\"url\":">> \o JsonString(entry.url)
        \o <<",", "\"contributor\":", "{", "\"entity_type\":">> \o JsonString(<<"AI">>)
        \o <<",", "\"model_identifier\":">> \o JsonString(entry.model_identifier)
        \o <<"}", ",", "\"ranges\":", "[", "{", "\"start_line\":", ToString(entry.start_line),
             ",", "\"end_line\":", ToString(entry.end_line), ",", "\"content_hash\":">>
        \o JsonString(entry.content_hash)
        \o <<"}", "]", ",", "\"related\":", "[", "{", "\"type\":">>
        \o JsonString(<<"specification">>)
        \o <<",", "\"value\":">> \o JsonString(entry.value)
        \o <<"}", "]", "}", "]", "}", "]", "}">>

\* the result of a post-hook call
HookDone(outcome, ops, log, file, wrote) ==
    [outcome |-> outcome, ops |-> ops, log |-> log, file |-> file, wrote |-> wrote]

\* mutant: an empty intent_id falls back to the task's intent (|| for ??)
traceIntentId_OrFallback(taskIntentId, params) ==
    IF IsSome(params.intent_id) /\ Get(params.intent_id) # <<>> THEN params.intent_id
    ELSE taskIntentId

\* params.intent_id ?? task.activeIntentId ?? null
traceIntentId(taskIntentId, params) ==
    IF IsSome(params.intent_id) THEN params.intent_id ELSE taskIntentId

\* a trace hook that trusts the caller's content and reads the file only without it
traceContent_CallerFirst(d, params) ==
    LET f == FileAt(d, resolve(params.path))
    IN  IF IsSome(params.text) THEN Get(params.text)
        ELSE IF f.exists /\ f.readable THEN f.content ELSE <<>>

\* the content the entry is about: the file as read, else the caller's content, else ""
traceContent(d, params) ==
    LET f == FileAt(d, resolve(params.path))
    IN  IF f.exists /\ f.readable THEN f.content
        ELSE IF IsSome(params.text) THEN Get(params.text) ELSE <<>>

\* the line appendFile is given
traceLine(taskIntentId, d, params, env) ==
    LET content == traceContent(d, params)
    IN  StringifyEntry(AgentTraceEntry(env.uuid, env.now, env.revision, params.path, env.taskId,
                                       modelId(env.model), LineCount(content),
                                       contentHashSha256(content),
                                       Get(traceIntentId(taskIntentId, params))))
            \o <<"\n">>

\* runAgentTracePostHook(task, params) on the ledger text tr and the disk d; env gives the
\* task's id and model, the revision lookup, the fresh id, the clock, and whether mkdir
\* and appendFile succeed
runAgentTracePostHook(taskIntentId, d, tr, params, env) ==
    LET intentId == traceIntentId(taskIntentId, params)
        read == <<FileOp("readFile", resolve(params.path))>>
        mkdir == <<FileOp("mkdir", OrchestrationDir)>>
        append == <<FileOp("appendFile", TracePath)>>
        failed == <<"[AgentTracePostHook] Failed to append trace:">>
    IN  IF ~IsSome(intentId) \/ Get(intentId) = <<>>
        THEN HookDone("returned", <<>>, <<>>, tr, FALSE)
        ELSE IF ~env.mkdir
        THEN HookDone("returned", read \o mkdir, failed, tr, FALSE)
        ELSE IF ~env.append
        THEN HookDone("returned", read \o mkdir \o append, failed, tr, FALSE)
        ELSE HookDone("returned", read \o mkdir \o append, <<>>,
                      tr \o traceLine(taskIntentId, d, params, env), TRUE)

-----------------------------------------------------------------------------
(* The inputs of the model.                                                *)

IdA == <<"A">>

IdLower == <<"a">>

IdB == <<"B">>

SrcFile == <<"s", "/", "a", ".", "t">>

DocsFile == <<"d", "/", "a">>

SecretFile == <<"s", "/", "k">>

DotSrcFile == <<".", "/", "s", "\\", "a", ".", "t">>

SrcGlob == <<"s", "/", "*", "*">>

DocsGlob == <<"d", "/", "*">>

SecretGlob == <<"*", "*", "/", "k">>

DeclaredIntents == {None, Some(<<>>), Some(IdA)}

IntentsFiles ==
    {[kind |-> k, entries |-> <<>>] :
        k \in {"missing", "unreadable", "parse_error", "empty", "no_key", "not_a_list", "list"}}
    \cup
    {[kind |-> "list", entries |-> e] :
        e \in {<<Intent(Some(IdA), Some(<<>>))>>,
               <<Intent(Some(IdLower), Some(<<DocsGlob>>))>>,
               <<Intent(Some(IdB), None), Intent(Some(IdA), Some(<<DocsGlob, SrcFile>>))>>,
               <<Intent(None, None), Intent(Some(IdA), Some(<<SrcGlob>>))>>,
               <<NullEntry, Intent(Some(IdA), Some(<<SrcGlob>>))>>,
               <<Intent(Some(IdA), None), NullEntry>>}}

\* the two ignore files: .orchestration/.intentignore and <cwd>/.intentignore
IntentIgnores ==
    {<<None, None>>,
     <<Some(<<<<"intent:", "A">>>>), None>>,
     <<None, Some(<<<<"#", "x">>, <<" ">>, <<" ", "intent:", " ", "A", " ">>, SecretFile>>)>>,
     <<Some(<<SecretGlob, <<"intent:", "a">>>>), Some(<<DocsFile>>)>>,
     <<Some(<<<<"intent:">>>>), Some(<<<<".", "/", "s", "/", "*">>>>)>>}

FileStates == {Missing, Unreadable, File(<<"1">>), File(<<"9">>)}

\* the files of the workspace the model varies; every other path is missing
Disk(srcState) == (resolve(SrcFile) :> srcState) @@ (resolve(DocsFile) :> File(<<"1">>))

ExpectedHashes ==
    {None, Some(<<>>), Some(<<" ">>), Some(contentHashSha256(<<"1">>)),
     Some(<<" ">> \o contentHashSha256(<<"9">>) \o <<" ">>)}

PatchLines ==
    {<<"*** Add File: ">> \o SrcFile,
     <<"*** Update File: ", " ">> \o DocsFile,
     <<"*** Delete File: ">> \o SecretFile,
     <<"@", "@">>}

Patches == UNION {[1..n -> PatchLines] : n \in 1..MaxPatchLines}

NoArgs ==
    [path |-> None, file_path |-> None, patch |-> None, intent_id |-> None,
     expected_content_hash |-> None]

NoParams == [path |-> None, file_path |-> None, patch |-> None]

ToolUse(nativeArgs, params) == [nativeArgs |-> nativeArgs, params |-> params]

Channels == {"none", "yes", "no"}

ChannelsOf(toolName) ==
    IF classifyTool(toolName) = "safe" THEN {"yes"}
    ELSE IF toolName = "apply_patch" THEN {"yes", "no"}
    ELSE Channels

WriteToolUses ==
    {ToolUse([NoArgs EXCEPT !.path = p, !.intent_id = i], NoParams) :
        p \in {None, Some(SrcFile), Some(DocsFile), Some(SecretFile)},
        i \in {None, Some(IdA), Some(IdB)}}
    \cup
    {ToolUse([NoArgs EXCEPT !.path = p, !.intent_id = Some(IdA), !.expected_content_hash = h],
             NoParams) :
        p \in {None, Some(SrcFile), Some(DocsFile), Some(SecretFile)},
        h \in ExpectedHashes}
    \cup
    {ToolUse([NoArgs EXCEPT !.path = p], [NoParams EXCEPT !.path = q]) :
        p \in {None, Some(<<" ">>)}, q \in {Some(DotSrcFile)}}

EditToolUses ==
    {ToolUse([NoArgs EXCEPT !.file_path = p, !.intent_id = i, !.expected_content_hash = h],
             NoParams) :
        p \in {Some(SrcFile), Some(DocsFile)},
        i \in {Some(IdB)},
        h \in {None, Some(contentHashSha256(<<"1">>))}}

DiffToolUses ==
    {ToolUse([NoArgs EXCEPT !.path = p, !.expected_content_hash = h], NoParams) :
        p \in {Some(SrcFile), Some(DocsFile)},
        h \in {None, Some(contentHashSha256(<<"9">>))}}

PatchToolUses ==
    {ToolUse([NoArgs EXCEPT !.patch = Some(p), !.expected_content_hash = h], NoParams) :
        p \in Patches, h \in {Some(contentHashSha256(<<"9">>))}}

CommandToolUses ==
    {ToolUse([NoArgs EXCEPT !.path = Some(DocsFile), !.intent_id = Some(IdB),
                            !.expected_content_hash = Some(contentHashSha256(<<"9">>))],
             NoParams)}

ToolUsesOf(toolName) ==
    CASE toolName = "write_to_file" -> WriteToolUses
      [] toolName \in {"edit", "edit_file", "search_replace"} -> EditToolUses
      [] toolName = "apply_diff" -> DiffToolUses
      [] toolName = "apply_patch" -> PatchToolUses
      [] OTHER -> CommandToolUses

UnknownTools == {"browser_action"}

ToolNames == TOOLS_REQUIRING_INTENT \cup EXEMPT_TOOLS \cup UnknownTools

Contexts ==
    UNION {{[toolName |-> t, toolUse |-> u, askForAuthorization |-> a] :
               u \in ToolUsesOf(t), a \in ChannelsOf(t)} : t \in ToolNames}

NoContext == [toolName |-> "", toolUse |-> ToolUse(NoArgs, NoParams), askForAuthorization |-> "none"]

\* no post-hook has been called
NoPost ==
    [hook |-> "none", params |-> [intent_id |-> None, path |-> <<>>, text |-> None],
     outcome |-> "none", ops |-> <<>>, log |-> <<>>, wrote |-> FALSE, faults |-> {}]

\* the tool block dispatched last was not a select_active_intent call
NoSelect ==
    [made |-> FALSE, intent_id |-> None, file |-> [kind |-> "missing", entries |-> <<>>],
     activeIntentId |-> None, activeIntent |-> None]

\* a task that has made no call yet: task.activeIntent is not set
NoHistory == [selected |-> None, checks |-> <<>>, activeIntent |-> None, select |-> NoSelect]

\* the two calls of runIntentMapPostHook a process may have in flight
Calls == {"first", "second"}

NoUpdate ==
    [step |-> "idle", params |-> [intent_id |-> <<>>, path |-> <<>>], sectionTitle |-> <<>>,
     out |-> <<>>, after |-> {}]

\* no index update has been called
NoUpdates == [c \in Calls |-> NoUpdate]

-----------------------------------------------------------------------------
(* The state machine.                                                      *)

Init ==
    /\ activeIntentId \in DeclaredIntents
    /\ intentsFile \in IntentsFiles
    /\ \E ig \in IntentIgnores : orchIgnore = ig[1] /\ rootIgnore = ig[2]
    /\ \E st \in FileStates : disk = Disk(st)
    /\ pc = "idle"
    /\ call = NoContext
    /\ result = NoResult
    /\ prompts = <<>>
    /\ reads = {}
    /\ pushed = None
    /\ trace = <<>>
    /\ priorTrace = <<>>
    /\ appended = <<>>
    /\ intentMap = Missing
    /\ agentMd = <<>>
    /\ post = NoPost
    /\ history = NoHistory
    /\ running = NoUpdates

\* the JSON error the caller pushes as the tool result of a denied call
pushToolResult(res) ==
    IF res.threw \/ res.allow THEN None
    ELSE Some(formatError(Get(res.error),
                          [errorType |-> res.errorType, recoverable |-> res.recoverable,
                           actionHint |-> res.actionHint, classification |-> res.classification]))

\* mutant: a denied check also forgets the intent the task has declared
Check_DenialClearsIntent(context, choice) ==
    /\ pc = "idle"
    /\ LET out == check(context, choice)
       IN  /\ result' = out.result
           /\ prompts' = out.prompts
           /\ reads' = out.reads
           /\ pushed' = pushToolResult(out.result)
           /\ activeIntentId' = IF out.result.threw \/ out.result.allow THEN activeIntentId ELSE None
    /\ call' = context
    /\ pc' = "checked"
    /\ UNCHANGED <<intentsFile, orchIgnore, rootIgnore, disk>>
    /\ UNCHANGED auditVars

\* presentAssistantMessage calls IntentGatekeeperHook.check for a complete tool block and,
\* on a denial, pushes the formatted error
Check(context, choice) ==
    /\ pc = "idle"
    /\ LET out == check(context, choice)
       IN  /\ result' = out.result
           /\ prompts' = out.prompts
           /\ reads' = out.reads
           /\ pushed' = pushToolResult(out.result)
    /\ call' = context
    /\ pc' = "checked"
    /\ UNCHANGED <<activeIntentId, intentsFile, orchIgnore, rootIgnore, disk>>
    /\ UNCHANGED auditVars

\* the caller consumes the result: the tool handler runs, or the formatted error is pushed
Return ==
    /\ pc = "checked"
    /\ pc' = "idle"
    /\ call' = NoContext
    /\ result' = NoResult
    /\ prompts' = <<>>
    /\ reads' = {}
    /\ pushed' = None
    /\ UNCHANGED <<activeIntentId, intentsFile, orchIgnore, rootIgnore, disk>>
    /\ UNCHANGED auditVars

\* a human or external tooling edits active_intents.yaml between two checks
EditIntentsFile(file) ==
    /\ pc = "idle"
    /\ intentsFile # file
    /\ intentsFile' = file
    /\ UNCHANGED <<activeIntentId, orchIgnore, rootIgnore, disk, pc, call, result, prompts, reads, pushed>>
    /\ UNCHANGED auditVars

\* a human or external tooling edits the ignore files between two checks
EditIntentIgnore(ig) ==
    /\ pc = "idle"
    /\ <<orchIgnore, rootIgnore>> # ig
    /\ orchIgnore' = ig[1]
    /\ rootIgnore' = ig[2]
    /\ UNCHANGED <<activeIntentId, intentsFile, disk, pc, call, result, prompts, reads, pushed>>
    /\ UNCHANGED auditVars

\* another agent or the user changes the target file between two checks
ExternalWrite(st) ==
    /\ pc = "idle"
    /\ disk # Disk(st)
    /\ disk' = Disk(st)
    /\ UNCHANGED <<activeIntentId, intentsFile, orchIgnore, rootIgnore, pc, call, result, prompts, reads, pushed>>
    /\ UNCHANGED auditVars

Next ==
    \/ \E context \in Contexts : \E choice \in ModalChoicesFor(context) : Check(context, choice)
    \/ Return
    \/ \E file \in IntentsFiles : EditIntentsFile(file)
    \/ \E ig \in IntentIgnores : EditIntentIgnore(ig)
    \/ \E st \in FileStates : ExternalWrite(st)

Spec == Init /\ [][Next]_vars

-----------------------------------------------------------------------------
(* Vocabulary of the properties.  These describe the situation a check     *)
(* was made in from the files and the call, not from the path check took.  *)

Checked == pc = "checked"

Destructive ==
    call.toolName \in {"write_to_file", "edit", "edit_file", "search_replace", "apply_diff",
                       "apply_patch", "execute_command"}

Approved(answer) == answer \in {"yes", "Approve"}

OverrideApproved == \E i \in 1..Len(prompts) : Approved(prompts[i].answer)

NoDeclaredIntent == activeIntentId = None \/ activeIntentId = Some(<<>>)

MissingIntentDenial ==
    [threw |-> FALSE, allow |-> FALSE,
     error |-> Some(<<"You must cite a valid active Intent ID.">>),
     classification |-> Some("destructive"),
     errorType |-> Some("MISSING_OR_INVALID_INTENT"),
     recoverable |-> Some(TRUE),
     actionHint |-> Some("select_active_intent")]

\* the store gives no intent with the declared id: no list at all, or a list of
\* well-formed entries none of which has exactly that id
StoreYieldsNoMatch ==
    \/ intentsFile.kind \in {"missing", "unreadable", "parse_error", "empty", "no_key"}
    \/ /\ intentsFile.kind = "list"
       /\ \A i \in 1..Len(intentsFile.entries) :
             /\ ~intentsFile.entries[i].isNull
             /\ intentsFile.entries[i].id # activeIntentId

\* positions of the store's entries that carry the declared id and are reached by
\* the search before any null entry
DeclaredEntries ==
    IF intentsFile.kind # "list" THEN {}
    ELSE {i \in 1..Len(intentsFile.entries) :
             /\ ~intentsFile.entries[i].isNull
             /\ intentsFile.entries[i].id = activeIntentId
             /\ \A j \in 1..(i - 1) : ~intentsFile.entries[j].isNull}

DeclaredInStore == ~NoDeclaredIntent /\ DeclaredEntries # {}

DeclaredEntry ==
    intentsFile.entries[CHOOSE i \in DeclaredEntries : \A j \in DeclaredEntries : i <= j]

DeclaredScope ==
    IF IsSome(DeclaredEntry.owned_scope) THEN Get(DeclaredEntry.owned_scope) ELSE <<>>

\* some readable ignore file holds the directive intent:<id>
IgnoreFileExcludes(ignoreFile, id) ==
    /\ IsSome(ignoreFile)
    /\ \E i \in 1..Len(Get(ignoreFile)) :
          LET line == Trim(Get(ignoreFile)[i])
          IN  line # <<>> /\ Head(line) = "intent:" /\ Trim(Tail(line)) = id

DeclaredIsExcluded ==
    ~NoDeclaredIntent /\ (\/ IgnoreFileExcludes(orchIgnore, Get(activeIntentId))
                          \/ IgnoreFileExcludes(rootIgnore, Get(activeIntentId)))

CallIntentMismatch ==
    /\ call.toolName = "write_to_file"
    /\ IsSome(call.toolUse.nativeArgs.intent_id)
    /\ call.toolUse.nativeArgs.intent_id # activeIntentId

IntentChecksPass ==
    DeclaredInStore /\ ~DeclaredIsExcluded /\ ~CallIntentMismatch

Targets == getTargetPathsForTool(call.toolName, call.toolUse)

IgnoredPatterns == readIntentIgnorePolicy(orchIgnore, rootIgnore).ignoredPathPatterns

TargetIgnored(i) == matchesAnyPattern(Targets[i], IgnoredPatterns)

TargetOutOfScope(i) ==
    DeclaredScope # <<>> /\ ~matchesAnyPattern(Targets[i], DeclaredScope)

ErrorTypeIs(kind) == ~result.threw /\ ~result.allow /\ result.errorType = Some(kind)

-----------------------------------------------------------------------------
\* C1: a destructive operation checked while no intent is declared (undefined or the
\* empty string), the override not approved, is denied with MISSING_OR_INVALID_INTENT
\* and the hint select_active_intent, whatever its parameters and the policy files.
C1_NoIntentDenied ==
    (Checked /\ Destructive /\ NoDeclaredIntent /\ ~OverrideApproved)
        => /\ ~result.threw
           /\ result.allow = FALSE
           /\ result.errorType = Some("MISSING_OR_INVALID_INTENT")
           /\ result.actionHint = Some("select_active_intent")

\* a patch touching an in-scope file, the store and the scope in order, the intent
\* declared as the empty string, the channel answering no
C1_Witness ==
    /\ Checked
    /\ call.toolName = "apply_patch"
    /\ activeIntentId = Some(<<>>)
    /\ intentsFile.kind = "list" /\ Len(intentsFile.entries) > 0
    /\ Len(prompts) = 1 /\ prompts[1].answer = "no"
    /\ result.errorType = Some("MISSING_OR_INVALID_INTENT")

\* C2: with a declared id that the store does not hold (file missing, unreadable,
\* unparsable, without a list, with an empty list, or listing only other ids, letter
\* case included), the override not approved, the denial is the very denial of C1.
C2_UnknownIntentSameDenial ==
    (Checked /\ Destructive /\ ~NoDeclaredIntent /\ StoreYieldsNoMatch /\ ~OverrideApproved)
        => result = MissingIntentDenial

\* declared "A" while the store lists only "a": the write is denied as if no intent
\* were declared
C2_Witness ==
    /\ Checked
    /\ call.toolName = "write_to_file"
    /\ activeIntentId = Some(IdA)
    /\ intentsFile.kind = "list"
    /\ \E i \in 1..Len(intentsFile.entries) : intentsFile.entries[i].id = Some(IdLower)
    /\ ~OverrideApproved
    /\ result = MissingIntentDenial

\* C3: intent checks passed, no target ignored, override not approved: an empty or
\* absent owned_scope rejects nothing; otherwise the first target matching no scope
\* pattern is denied with SCOPE_VIOLATION and a message naming the intent id and that
\* path; when every target matches some pattern nothing is rejected for scope.
C3_ScopeEnforced ==
    (/\ Checked /\ Destructive /\ IntentChecksPass /\ ~OverrideApproved
     /\ \A i \in 1..Len(Targets) : ~TargetIgnored(i))
        => LET outside == {i \in 1..Len(Targets) : TargetOutOfScope(i)}
               first == CHOOSE i \in outside : \A j \in outside : i <= j
           IN  IF outside = {}
               THEN ~ErrorTypeIs("SCOPE_VIOLATION")
               ELSE /\ ErrorTypeIs("SCOPE_VIOLATION")
                    /\ Includes(Get(result.error), Get(activeIntentId))
                    /\ Includes(Get(result.error), Targets[first])

\* a patch whose first file is in scope and whose second is not
C3_Witness ==
    /\ Checked
    /\ call.toolName = "apply_patch"
    /\ Len(Targets) = 2
    /\ IntentChecksPass
    /\ ~TargetOutOfScope(1) /\ TargetOutOfScope(2)
    /\ ErrorTypeIs("SCOPE_VIOLATION")
    /\ Includes(Get(result.error), Targets[2])

-----------------------------------------------------------------------------
\* C4: as claimed: a destructive operation with a target path that matches an
\* ignored path pattern is denied with INTENTIGNORE_PATH_BLOCKED, whichever intent
\* (here: any intent that passes the intent checks) is declared.
C4_ExcludedPathAlwaysBlocked ==
    (Checked /\ Destructive /\ IntentChecksPass /\ \E i \in 1..Len(Targets) : TargetIgnored(i))
        => ErrorTypeIs("INTENTIGNORE_PATH_BLOCKED")

\* C4 as amended: without an approved override an operation with an ignored target is
\* never allowed; when the intent checks pass and no earlier target of the operation
\* is rejected, the denial is INTENTIGNORE_PATH_BLOCKED and names the path, also for
\* a path inside the intent's owned_scope.
C4_ExcludedPathBlockedUnlessOverridden ==
    (Checked /\ Destructive /\ ~OverrideApproved /\ \E i \in 1..Len(Targets) : TargetIgnored(i))
        => /\ ~result.allow
           /\ (/\ IntentChecksPass
               /\ \E i \in 1..Len(Targets) :
                     /\ TargetIgnored(i)
                     /\ \A j \in 1..(i - 1) : ~TargetIgnored(j) /\ ~TargetOutOfScope(j))
                  => /\ ErrorTypeIs("INTENTIGNORE_PATH_BLOCKED")
                     /\ \E i \in 1..Len(Targets) :
                           TargetIgnored(i) /\ Includes(Get(result.error), Targets[i])

\* an ignored file that lies inside the declared intent's non-empty owned_scope
C4_Witness ==
    /\ Checked
    /\ call.toolName = "write_to_file"
    /\ IntentChecksPass
    /\ Len(Targets) = 1 /\ TargetIgnored(1)
    /\ DeclaredScope # <<>> /\ ~TargetOutOfScope(1)
    /\ ~OverrideApproved
    /\ ErrorTypeIs("INTENTIGNORE_PATH_BLOCKED")

\* C5: as claimed: with intent:<ID> in the exclusion policy, any destructive operation
\* under declared intent <ID> (an intent of the store) is denied with INTENT_IGNORED.
C5_ExcludedIntentAlwaysDenied ==
    (Checked /\ Destructive /\ DeclaredInStore /\ DeclaredIsExcluded)
        => ErrorTypeIs("INTENT_IGNORED")

\* C5 as amended: the same, provided the override channel does not approve.
C5_ExcludedIntentDeniedUnlessOverridden ==
    (Checked /\ Destructive /\ DeclaredInStore /\ DeclaredIsExcluded /\ ~OverrideApproved)
        => ErrorTypeIs("INTENT_IGNORED")

\* the excluded intent's scope allows the only target, which no pattern ignores
C5_Witness ==
    /\ Checked
    /\ Destructive
    /\ DeclaredInStore /\ DeclaredIsExcluded
    /\ Len(Targets) = 1 /\ ~TargetOutOfScope(1) /\ ~TargetIgnored(1)
    /\ ~OverrideApproved
    /\ ErrorTypeIs("INTENT_IGNORED")

-----------------------------------------------------------------------------
(* Staleness vocabulary.                                                   *)

ExpectedDigest == call.toolUse.nativeArgs.expected_content_hash

SuppliesExpectedDigest == IsSome(ExpectedDigest) /\ Trim(Get(ExpectedDigest)) # <<>>

TargetFile(i) == FileAt(disk, resolve(Targets[i]))

\* the target exists, can be read and its digest is not the expected one
TargetStale(i) ==
    /\ TargetFile(i).exists
    /\ TargetFile(i).readable
    /\ <<"sha256:", HexDigest(TargetFile(i).content)>> # Trim(Get(ExpectedDigest))

\* every target that exists has the expected digest
TargetsFresh ==
    \A i \in 1..Len(Targets) :
        TargetFile(i).exists
            => /\ TargetFile(i).readable
               /\ <<"sha256:", HexDigest(TargetFile(i).content)>> = Trim(Get(ExpectedDigest))

PathChecksPass ==
    IntentChecksPass /\ \A i \in 1..Len(Targets) : ~TargetIgnored(i) /\ ~TargetOutOfScope(i)

StaleDenied == ErrorTypeIs("STALE_FILE") /\ result.actionHint = Some("read_file")

\* C6: as claimed, for any destructive operation that passes the intent, exclusion
\* and scope checks and supplies an expected digest: a stale existing target gives
\* the STALE_FILE denial with the hint to re-read; all existing targets fresh gives
\* allow.
C6_StaleDeniedForAnyTool ==
    (Checked /\ Destructive /\ PathChecksPass /\ SuppliesExpectedDigest)
        => /\ (\E i \in 1..Len(Targets) : TargetStale(i)) => StaleDenied
           /\ TargetsFresh => result.allow

\* C6 as amended: the stale denial is given for write_to_file, apply_diff, edit,
\* edit_file and search_replace; apply_patch is not subject to the staleness check and
\* is allowed; all existing targets fresh gives allow for every destructive operation.
C6_StaleDeniedForHashCheckedTools ==
    (Checked /\ Destructive /\ PathChecksPass /\ SuppliesExpectedDigest)
        => /\ (/\ call.toolName \in {"write_to_file", "apply_diff", "edit", "edit_file",
                                     "search_replace"}
               /\ \E i \in 1..Len(Targets) : TargetStale(i)) => StaleDenied
           /\ call.toolName = "apply_patch" => result.allow
           /\ TargetsFresh => result.allow

\* a write whose target was changed on disk since the expected digest was taken
C6_Witness ==
    /\ Checked
    /\ call.toolName = "write_to_file"
    /\ PathChecksPass /\ SuppliesExpectedDigest
    /\ Len(Targets) = 1 /\ TargetStale(1)
    /\ StaleDenied
    /\ Includes(Get(result.error), Targets[1])

\* C7: whatever the override channel answers, check never allows an operation (of a
\* tool that takes expected_content_hash) that supplies an expected digest while an
\* existing, readable target has another digest.
C7_StaleNeverAllowed ==
    (/\ Checked
     /\ call.toolName \in {"write_to_file", "apply_diff", "edit", "edit_file", "search_replace"}
     /\ SuppliesExpectedDigest
     /\ \E i \in 1..Len(Targets) : TargetStale(i))
        => ~result.allow

\* C8: as claimed, under a declared intent of the store: a write_to_file whose own
\* intent_id differs from it is denied with HOOK_BLOCKED and a message naming both
\* ids; a call without intent_id, or another tool with a differing intent_id, is
\* never denied with HOOK_BLOCKED.
C8_MismatchAlwaysDenied ==
    (Checked /\ Destructive /\ DeclaredInStore)
        => IF CallIntentMismatch
           THEN /\ ErrorTypeIs("HOOK_BLOCKED")
                /\ Includes(Get(result.error), Get(call.toolUse.nativeArgs.intent_id))
                /\ Includes(Get(result.error), Get(activeIntentId))
           ELSE ~ErrorTypeIs("HOOK_BLOCKED")

\* C8 as amended: the same, provided the declared intent is not excluded by the
\* ignore files (an excluded intent is handled, and may be overridden, first).
C8_MismatchDeniedUnlessExcluded ==
    (Checked /\ Destructive /\ DeclaredInStore)
        => IF CallIntentMismatch /\ ~DeclaredIsExcluded
           THEN /\ ErrorTypeIs("HOOK_BLOCKED")
                /\ Includes(Get(result.error), Get(call.toolUse.nativeArgs.intent_id))
                /\ Includes(Get(result.error), Get(activeIntentId))
           ELSE ~ErrorTypeIs("HOOK_BLOCKED")

\* a write to an in-scope file citing intent B under declared intent A, the channel
\* ready to approve
C8_Witness ==
    /\ Checked
    /\ call.toolName = "write_to_file"
    /\ call.askForAuthorization = "yes"
    /\ DeclaredInStore /\ CallIntentMismatch
    /\ Len(Targets) = 1 /\ DeclaredScope # <<>> /\ ~TargetOutOfScope(1) /\ ~TargetIgnored(1)
    /\ ErrorTypeIs("HOOK_BLOCKED")

\* C9: an operation that is not one of the seven destructive tools (an exempt tool or
\* an unknown name) is allowed as safe, whatever the declared intent, the policy files
\* and the expected digest; the check reads no file and asks no override.
C9_SafeAlwaysAllowed ==
    (Checked /\ ~Destructive)
        => /\ ~result.threw
           /\ result.allow
           /\ result.error = None /\ result.errorType = None
           /\ result.classification = Some("safe")
           /\ reads = {}
           /\ prompts = <<>>

\* an unknown tool name checked with no declared intent and no intent store
C9_Witness ==
    /\ Checked
    /\ call.toolName = "browser_action"
    /\ activeIntentId = None
    /\ intentsFile.kind = "missing"
    /\ IsSome(ExpectedDigest)
    /\ result.allow

\* a denial of one of the four overridable kinds is pending for the call
OverridablePending ==
    /\ Destructive
    /\ \/ NoDeclaredIntent
       \/ ~NoDeclaredIntent /\ StoreYieldsNoMatch
       \/ DeclaredInStore /\ DeclaredIsExcluded
       \/ /\ IntentChecksPass
          /\ \E i \in 1..Len(Targets) : TargetIgnored(i) \/ TargetOutOfScope(i)

\* what check returns for the same call when the channel answers no
DenialWithoutOverride == check([call EXCEPT !.askForAuthorization = "no"], "dismissed").result

\* C10: with an overridable denial pending, the channel is asked once with a prompt
\* that contains the denial's message; an approving answer gives allow, any other
\* answer gives exactly the denial returned when the channel answers no.
C10_OverrideConvertsDenial ==
    (Checked /\ OverridablePending)
        => /\ Len(prompts) = 1
           /\ ~DenialWithoutOverride.allow
           /\ DenialWithoutOverride.errorType \in
                 {Some("MISSING_OR_INVALID_INTENT"), Some("INTENT_IGNORED"),
                  Some("INTENTIGNORE_PATH_BLOCKED"), Some("SCOPE_VIOLATION")}
           /\ Includes(prompts[1].message, Get(DenialWithoutOverride.error))
           /\ IF Approved(prompts[1].answer)
              THEN ~result.threw /\ result.allow /\ result.error = None
              ELSE result = DenialWithoutOverride

\* a scope violation approved through the caller's callback
C10_Witness ==
    /\ Checked
    /\ call.askForAuthorization = "yes"
    /\ IntentChecksPass
    /\ Len(Targets) = 1 /\ TargetOutOfScope(1) /\ ~TargetIgnored(1)
    /\ Len(prompts) = 1 /\ prompts[1].answer = "yes"
    /\ result.allow

-----------------------------------------------------------------------------
(* C11: a context without askForAuthorization.                             *)

NoChannel == call.askForAuthorization = "none"

\* C11 as stated: without an override channel check asks nobody and returns the
\* pending denial.
C11_NoChannelDeniesSilently ==
    (Checked /\ NoChannel /\ OverridablePending)
        => prompts = <<>> /\ result = DenialWithoutOverride

\* C11 as amended: without a callback check falls back to the modal warning.  With an
\* overridable denial pending exactly one modal prompt is shown, "Approve" gives allow,
\* "Reject" or dismissing the modal gives the pending denial; an intent_id mismatch or
\* a stale target is denied with no prompt at all.
C11_NoChannelAsksModal ==
    (Checked /\ NoChannel /\ Destructive)
        => IF OverridablePending
           THEN /\ Len(prompts) = 1
                /\ prompts[1].answer \in ModalChoices
                /\ Includes(prompts[1].message, Get(DenialWithoutOverride.error))
                /\ result.allow <=> prompts[1].answer = "Approve"
                /\ ~result.allow => result = DenialWithoutOverride
           ELSE /\ prompts = <<>>
                /\ result = DenialWithoutOverride \/ result.threw

\* a scope violation, no callback, the modal dismissed: the scope denial is returned
C11_Witness ==
    /\ Checked /\ NoChannel
    /\ IntentChecksPass
    /\ Len(Targets) = 1 /\ TargetOutOfScope(1) /\ ~TargetIgnored(1)
    /\ Len(prompts) = 1 /\ prompts[1].answer = "dismissed"
    /\ result.errorType = Some("SCOPE_VIOLATION")

-----------------------------------------------------------------------------
(* C20: the shape of a denial.                                             *)

\* the payload formatError gives for the denial's message alone, as the test calls it
BarePayload == formatError(Get(result.error), NoMetadata)

\* C20: a denial returned by check has allow false, one of the six kinds, a non-empty
\* message, a non-empty action hint and recoverable true, and an allow has no error;
\* formatError of the message without metadata is a JSON object with status "error",
\* error_type MISSING_OR_INVALID_INTENT, recoverable true and action_hint
\* select_active_intent, and the payload pushed for the denial carries its own kind.
C20_DenialsStructured ==
    (Checked /\ ~result.threw)
        => IF result.allow
           THEN result.error = None /\ result.errorType = None /\ pushed = None
           ELSE /\ IsSome(result.errorType) /\ Get(result.errorType) \in HookErrorType
                /\ IsSome(result.error) /\ Get(result.error) # <<>>
                /\ IsSome(result.actionHint) /\ Get(result.actionHint) # ""
                /\ result.recoverable = Some(TRUE)
                /\ JsonValid(BarePayload)
                /\ JsonMember(BarePayload, "\"status\":") = JsonStr(<<"error">>)
                /\ JsonMember(BarePayload, "\"error\":") = JsonStr(Get(result.error))
                /\ JsonMember(BarePayload, "\"error_type\":") = JsonStr(<<"MISSING_OR_INVALID_INTENT">>)
                /\ JsonMember(BarePayload, "\"recoverable\":") = JsonLit("true")
                /\ JsonMember(BarePayload, "\"action_hint\":") = JsonStr(<<"select_active_intent">>)
                /\ IsSome(pushed) /\ JsonValid(Get(pushed))
                /\ JsonMember(Get(pushed), "\"error_type\":") = JsonStr(<<Get(result.errorType)>>)
                /\ JsonMember(Get(pushed), "\"action_hint\":") = JsonStr(<<Get(result.actionHint)>>)

\* a stale write is denied and its payload says STALE_FILE, to be answered by read_file
C20_Witness ==
    /\ Checked /\ ~result.allow /\ ~result.threw
    /\ result.errorType = Some("STALE_FILE")
    /\ IsSome(pushed)
    /\ JsonMember(Get(pushed), "\"action_hint\":") = JsonStr(<<"read_file">>)
    /\ JsonMember(BarePayload, "\"error_type\":") = JsonStr(<<"MISSING_OR_INVALID_INTENT">>)

-----------------------------------------------------------------------------
(* The ledger specification: checks, the write tools' handlers and direct  *)
(* calls of runAgentTracePostHook, on a workspace whose policy files are   *)
(* fixed.                                                                  *)

IdQuoted == <<"A", "\"">>

TaskId == <<"t", "1">>

\* the environment of a post-hook call: the n-th fresh identifier and instant, the
\* revision lookup (null when unavailable), the model id (absent when the task has no
\* api, no getModel or no id), and whether mkdir and appendFile succeed
Env(n, revision, model, mkdir, append) ==
    [taskId |-> TaskId, uuid |-> <<"u", ToString(n)>>,
     now |-> <<"2026-01-0", ToString(n), "T00:00:00.000Z">>,
     revision |-> revision, model |-> model, mkdir |-> mkdir, append |-> append]

Envs(n) ==
    {Env(n, Some(<<"r">>), Some(<<"m">>), TRUE, TRUE),
     Env(n, None, Some(<<"m">>), TRUE, TRUE),
     Env(n, Some(<<"r">>), None, TRUE, TRUE),
     Env(n, Some(<<"r">>), Some(<<"m">>), FALSE, TRUE),
     Env(n, Some(<<"r">>), Some(<<"m">>), TRUE, FALSE)}

TraceParams(intentId, path, content) == [intent_id |-> intentId, path |-> path, text |-> content]

RecordParams ==
    {TraceParams(i, SrcFile, Some(<<"1", "\n">>)) : i \in {None, Some(<<>>), Some(IdA), Some(IdQuoted)}}
    \cup {TraceParams(Some(IdA), SrcFile, None)}

\* a ledger written by an earlier session
PriorTraces ==
    {<<>>,
     StringifyEntry(AgentTraceEntry(<<"u", "0">>, <<"2025-12-31", "T00:00:00.000Z">>, None, DocsFile,
                                    <<"t", "0">>, <<"unknown">>, 1, contentHashSha256(<<"1">>), IdB))
        \o <<"\n">>}

LedgerContexts ==
    {[toolName |-> "write_to_file",
      toolUse |-> ToolUse([NoArgs EXCEPT !.path = Some(SrcFile), !.intent_id = i], NoParams),
      askForAuthorization |-> a] : i \in {None, Some(IdA)}, a \in {"yes", "no"}}
    \cup
    {[toolName |-> "edit_file",
      toolUse |-> ToolUse([NoArgs EXCEPT !.file_path = Some(SrcFile)], NoParams),
      askForAuthorization |-> a] : a \in {"yes", "no"}}
    \cup
    {[toolName |-> "apply_diff",
      toolUse |-> ToolUse([NoArgs EXCEPT !.path = Some(DocsFile)], NoParams),
      askForAuthorization |-> a] : a \in {"yes", "no"}}
    \cup
    {[toolName |-> "search_replace",
      toolUse |-> ToolUse([NoArgs EXCEPT !.file_path = Some(DocsFile)], NoParams),
      askForAuthorization |-> a] : a \in {"yes", "no"}}

LedgerInit ==
    /\ activeIntentId \in {None, Some(IdA)}
    /\ intentsFile = [kind |-> "list", entries |-> <<Intent(Some(IdA), Some(<<>>))>>]
    /\ orchIgnore = None /\ rootIgnore = None
    /\ disk \in {Disk(Missing), Disk(File(<<"1">>))}
    /\ pc = "idle"
    /\ call = NoContext
    /\ result = NoResult
    /\ prompts = <<>>
    /\ reads = {}
    /\ pushed = None
    /\ priorTrace \in PriorTraces
    /\ trace = priorTrace
    /\ appended = <<>>
    /\ intentMap = Missing
    /\ agentMd = <<>>
    /\ post = NoPost
    /\ history = NoHistory
    /\ running = NoUpdates

\* a post-hook call as the state remembers it: what it was given, how it ended, the file
\* operations it made, what it logged, whether it wrote its file, and the steps that failed
PostCall(hook, params, out, faults) ==
    [hook |-> hook, params |-> params, outcome |-> out.outcome, ops |-> out.ops, log |-> out.log,
     wrote |-> out.wrote, faults |-> faults]

\* what a successful appendFile of the trace hook is remembered by
Appended(taskIntentId, params) ==
    [intentId |-> Get(traceIntentId(taskIntentId, params)), path |-> params.path]

\* the steps of a trace call that fail: reading the target, the revision lookup, the model
\* id lookup, mkdir, appendFile (not attempted after a failed mkdir)
traceFaults(taskIntentId, d, params, env) ==
    LET intentId == traceIntentId(taskIntentId, params)
        f == FileAt(d, resolve(params.path))
    IN  IF ~IsSome(intentId) \/ Get(intentId) = <<>> THEN {}
        ELSE (IF f.exists /\ f.readable THEN {} ELSE {"read"})
             \cup (IF IsSome(env.revision) THEN {} ELSE {"revision"})
             \cup (IF IsSome(env.model) THEN {} ELSE {"model"})
             \cup (IF env.mkdir THEN {} ELSE {"mkdir"})
             \cup (IF env.mkdir /\ ~env.append THEN {"append"} ELSE {})

\* runAgentTracePostHook is called with params
Record(params, env) ==
    /\ pc = "idle"
    /\ Len(appended) < MaxRecords
    /\ LET out == runAgentTracePostHook(activeIntentId, disk, trace, params, env)
       IN  /\ post' = PostCall("trace", params, out, traceFaults(activeIntentId, disk, params, env))
           /\ trace' = out.file
           /\ appended' = IF out.wrote THEN Append(appended, Appended(activeIntentId, params))
                          ELSE appended
    /\ UNCHANGED <<gateVars, priorTrace, intentMap, agentMd, history, running>>

\* the tools whose handler calls runAgentTracePostHook after a successful write
TracingTools == {"write_to_file", "edit_file", "apply_diff"}

\* the path a write tool writes
WrittenPath(context) == Head(getTargetPathsForTool(context.toolName, context.toolUse))

\* the params a tool hands to the trace hook: write_to_file its own intent_id, the
\* others the task's active intent
HandlerTraceParams(context, taskIntentId, content) ==
    TraceParams(IF context.toolName = "write_to_file" THEN context.toolUse.nativeArgs.intent_id
                ELSE taskIntentId,
                WrittenPath(context), Some(content))

\* the handler of an allowed write tool runs: write_to_file without intent_id is rejected by
\* the tool's validation; the write fails or is saved; after a save the tracing tools call
\* the trace hook
Handle(saved, content, env) ==
    /\ pc = "checked"
    /\ ~result.threw /\ result.allow
    /\ pc' = "handled"
    /\ IF saved /\ ~(call.toolName = "write_to_file" /\ call.toolUse.nativeArgs.intent_id = None)
       THEN /\ disk' = [disk EXCEPT ![resolve(WrittenPath(call))] = File(content)]
            /\ IF call.toolName \in TracingTools
               THEN LET params == HandlerTraceParams(call, activeIntentId, content)
                        out == runAgentTracePostHook(activeIntentId, disk', trace, params, env)
                    IN  /\ post' = PostCall("trace", params, out,
                                             traceFaults(activeIntentId, disk', params, env))
                        /\ trace' = out.file
                        /\ appended' = IF out.wrote
                                       THEN Append(appended, Appended(activeIntentId, params))
                                       ELSE appended
               ELSE /\ post' = [NoPost EXCEPT !.outcome = "saved"]
                    /\ UNCHANGED <<trace, appended>>
       ELSE /\ post' = NoPost
            /\ UNCHANGED <<disk, trace, appended>>
    /\ UNCHANGED <<activeIntentId, intentsFile, orchIgnore, rootIgnore, call, result, prompts,
                   reads, pushed, priorTrace, intentMap, agentMd, history, running>>

\* the handler's result is pushed and the caller is ready for the next tool block
Resolve ==
    /\ pc = "handled"
    /\ pc' = "idle"
    /\ call' = NoContext
    /\ result' = NoResult
    /\ prompts' = <<>>
    /\ reads' = {}
    /\ post' = NoPost
    /\ UNCHANGED <<activeIntentId, intentsFile, orchIgnore, rootIgnore, disk, pushed>>
    /\ UNCHANGED <<trace, priorTrace, appended, intentMap, agentMd, history, running>>

LedgerNext ==
    \/ \E params \in RecordParams : \E env \in Envs(Len(appended) + 1) : Record(params, env)
    \/ \E context \in LedgerContexts :
          /\ Len(appended) < MaxRecords
          /\ post = NoPost
          /\ Check(context, "dismissed")
    \/ ~result.allow /\ Return
    \/ \E saved \in BOOLEAN : \E append \in BOOLEAN :
          Handle(saved, <<"9">>, Env(Len(appended) + 1, Some(<<"r">>), Some(<<"m">>), TRUE, append))
    \/ Resolve

LedgerSpec == LedgerInit /\ [][LedgerNext]_vars

-----------------------------------------------------------------------------
(* C12: the ledger only grows, one parseable line per successful append.   *)

IsPrefix(a, b) == Len(a) <= Len(b) /\ SubSeq(b, 1, Len(a)) = a

\* text.split("\n")
SplitLines(text) ==
    LET breaks == {i \in 1..Len(text) : text[i] = "\n"}
        nth(k) == IF k = 0 THEN 0
                  ELSE IF k > Cardinality(breaks) THEN Len(text) + 1
                  ELSE CHOOSE p \in breaks : Cardinality({q \in breaks : q < p}) = k - 1
    IN  [k \in 1..(Cardinality(breaks) + 1) |-> SubSeq(text, nth(k - 1) + 1, nth(k) - 1)]

\* what has been added to the ledger since the first call
AddedText == SubSeq(trace, Len(priorTrace) + 1, Len(trace))

\* the lines of the added text, each without its line break
AddedLines ==
    LET parts == SplitLines(AddedText)
    IN  SubSeq(parts, 1, Len(parts) - 1)

LedgerLinesMatch ==
    /\ IsPrefix(priorTrace, trace)
    /\ AddedText # <<>> => AddedText[Len(AddedText)] = "\n"
    /\ Len(AddedLines) = Len(appended)
    /\ \A i \in 1..Len(appended) :
          /\ i <= Len(AddedLines)
          /\ JsonValid(AddedLines[i])
          /\ appended[i].intentId # <<>>
          /\ JsonMember(AddedLines[i], "\"value\":") = JsonStr(appended[i].intentId)
          /\ JsonMember(AddedLines[i], "\"relative_path\":") = JsonStr(appended[i].path)

\* C12: after any sequence of trace calls the ledger is its prior text followed by one
\* newline-terminated JSON line per call whose append succeeded, in call order, each
\* parseable by itself and carrying that call's non-empty intent id in related[0].value;
\* no step changes or removes text that is already in the ledger.
C12_LedgerAppendOnly ==
    /\ []LedgerLinesMatch
    /\ [][IsPrefix(trace, trace')]_vars

\* two appends after an earlier session's line, the first for an id that needs escaping
C12_Witness ==
    /\ priorTrace # <<>>
    /\ Len(appended) = 2
    /\ appended[1].intentId = IdQuoted
    /\ appended[2].intentId = IdA
    /\ post.hook = "trace" /\ post.outcome = "returned" /\ post.log = <<>>

-----------------------------------------------------------------------------
(* C13: an accepted mutation and its ledger record.                        *)

\* the last line of the ledger, without its line break
LastTraceLine ==
    LET parts == SplitLines(trace)
    IN  IF Len(parts) < 2 THEN <<>> ELSE parts[Len(parts) - 1]

\* the handler of an allowed call saved the file and called the trace hook, and the hook
\* met no file system failure
SavedAndTraced == pc = "handled" /\ post.hook = "trace" /\ post.log = <<>>

\* the trace hook has just appended one record for the path the call wrote, with an intent
\* id and the digest of the file as saved
RecordedTheWrite ==
    /\ Len(appended) > 0
    /\ appended[Len(appended)].path = WrittenPath(call)
    /\ JsonValid(LastTraceLine)
    /\ JsonMember(LastTraceLine, "\"relative_path\":") = JsonStr(WrittenPath(call))
    /\ JsonMember(LastTraceLine, "\"value\":") = JsonStr(appended[Len(appended)].intentId)
    /\ appended[Len(appended)].intentId # <<>>
    /\ JsonMember(LastTraceLine, "\"content_hash\":")
          = JsonStr(contentHashSha256(FileAt(disk, resolve(WrittenPath(call))).content))

\* the appendFile calls the last post-hook call made
Appends == {i \in 1..Len(post.ops) : post.ops[i].op = "appendFile"}

\* C13: whenever check allows a mutating call, by its own decision or by an approved
\* override, and the handler saves the file, the trace call that follows appends exactly one
\* record that links the written path to an intent id and to the digest of the content.
C13_AcceptedMutationRecorded ==
    SavedAndTraced => (Cardinality(Appends) = 1 /\ RecordedTheWrite)

-----------------------------------------------------------------------------
(* C14, C18: what a trace call does when a step fails or there is no id.   *)

TraceCalled == post.hook = "trace"

\* the content the last trace call falls back to when the target cannot be read
FallbackContent == IF IsSome(post.params.text) THEN Get(post.params.text) ELSE <<>>

\* C14: whichever step of a trace call fails, the failure is caught and logged
\* and the call returns normally.
C14_EveryFailureLogged ==
    (TraceCalled /\ post.faults # {}) => (post.outcome = "returned" /\ post.log # <<>>)

\* what the hook does with a failure: a trace call always returns normally.  A failed
\* mkdir or appendFile is caught and logged and nothing is appended.  A failed read,
\* revision lookup or model id lookup is absorbed without a log entry and the record is
\* still appended: with the digest of the caller's content (of the empty text when there
\* is none), with revision_id null, with model_identifier "unknown".
FailuresAbsorbed ==
    TraceCalled
        => /\ post.outcome = "returned"
           /\ post.log # <<>> <=> post.faults \cap {"mkdir", "append"} # {}
           /\ post.log # <<>> => ~post.wrote
           /\ (post.faults # {} /\ post.log = <<>>)
                 => /\ post.wrote
                    /\ JsonValid(LastTraceLine)
                    /\ "read" \in post.faults
                          => JsonMember(LastTraceLine, "\"content_hash\":")
                                = JsonStr(contentHashSha256(FallbackContent))
                    /\ "revision" \in post.faults
                          => JsonMember(LastTraceLine, "\"revision_id\":") = JsonLit("null")
                    /\ "model" \in post.faults
                          => JsonMember(LastTraceLine, "\"model_identifier\":") = JsonStr(<<"unknown">>)

\* C18: a trace call given the empty intent id makes no file operation at all (no read,
\* no mkdir, no appendFile), logs nothing and returns normally, whatever intent the task
\* has declared.
C18_EmptyIntentNoOp ==
    (TraceCalled /\ post.params.intent_id = Some(<<>>))
        => /\ post.ops = <<>>
           /\ post.outcome = "returned"
           /\ ~post.wrote
           /\ post.log = <<>>

\* the empty id is given while the task has an active intent: still nothing happens
C18_Witness ==
    /\ TraceCalled
    /\ post.params.intent_id = Some(<<>>)
    /\ activeIntentId = Some(IdA)
    /\ post.ops = <<>>
    /\ post.outcome = "returned"

-----------------------------------------------------------------------------
(* The intent index, .orchestration/intent_map.md.  Its text is a sequence *)
(* of tokens: "#", "-", the backtick, blanks, line breaks, the characters   *)
(* of paths and ids, and whole words of prose.                             *)

\* the character ` of the index text (a string of the model cannot hold it)
Backtick == "<backtick>"

IntentMapPath == <<cwd, <<".orchestration">>, <<"intent_map.md">>>>

\* an entry of active_intents.yaml as the index hook sees it: id and optional name
NamedIntent(id, name) == [isNull |-> FALSE, id |-> Some(id), name |-> name]

\* mutant: the section title is always the bare id
resolveIntentTitle_IdOnly(file, intentId) == intentId

\* resolveIntentTitle: "<id>: <name>" when the store has an entry with this id and a
\* non-blank name; the bare id when the store cannot be read or parsed, has no such
\* entry, or the lookup throws (an entry that is null, a store that is not a list)
resolveIntentTitle(file, intentId) ==
    LET intents == IF file.kind = "list" THEN file.entries ELSE <<>>
        stops == {i \in 1..Len(intents) : intents[i].isNull \/ intents[i].id = Some(intentId)}
        first == CHOOSE i \in stops : \A j \in stops : i <= j
    IN  IF file.kind \in {"missing", "unreadable", "parse_error", "not_a_list"} \/ stops = {}
        THEN intentId
        ELSE IF intents[first].isNull \/ ~IsSome(intents[first].name)
        THEN intentId
        ELSE IF Trim(Get(intents[first].name)) = <<>>
        THEN intentId
        ELSE intentId \o <<":", " ">> \o Trim(Get(intents[first].name))

\* SECTION_HEADER_RE = /^##\s+(.+)$/ matches the line
IsSectionHeader(line) ==
    /\ Len(line) >= 4
    /\ line[1] = "#" /\ line[2] = "#"
    /\ line[3] \in Whitespace

\* the trimmed capture of SECTION_HEADER_RE
SectionTitle(line) == Trim(SubSeq(line, 4, Len(line)))

\* where the backtick of a list item opens: after "-" and at least one blank
ItemOpen(line) ==
    LET t == TrimEnd(line)
        solid == {i \in 2..Len(t) : t[i] \notin Whitespace}
    IN  IF solid = {} THEN 0 ELSE CHOOSE i \in solid : \A j \in solid : i <= j

\* LIST_ITEM_RE = /^-\s+`([^`]+)`\s*$/ matches the line
IsListItem(line) ==
    LET t == TrimEnd(line)
        open == ItemOpen(line)
    IN  /\ Len(t) >= 5
        /\ t[1] = "-"
        /\ open >= 3
        /\ t[open] = Backtick
        /\ t[Len(t)] = Backtick
        /\ Len(t) > open + 1
        /\ \A i \in (open + 1)..(Len(t) - 1) : t[i] # Backtick

\* the capture of LIST_ITEM_RE
ItemPath(line) == SubSeq(TrimEnd(line), ItemOpen(line) + 1, Len(TrimEnd(line)) - 1)

\* content.split(/\r?\n/) of a text without carriage returns
RECURSIVE MapLines(_, _)
MapLines(text, cur) ==
    IF text = <<>> THEN <<cur>>
    ELSE IF Head(text) = "\n" THEN <<cur>> \o MapLines(Tail(text), <<>>)
    ELSE MapLines(Tail(text), Append(cur, Head(text)))

\* the loop of parseIntentMap over the lines: order is the titles of the headings met so
\* far, found[k] the paths listed under the k-th heading
RECURSIVE ParseLines(_, _, _)
ParseLines(lines, order, found) ==
    IF lines = <<>> THEN [order |-> order, found |-> found]
    ELSE LET line == Head(lines)
         IN  IF IsSectionHeader(line)
             THEN ParseLines(Tail(lines), Append(order, SectionTitle(line)), Append(found, {}))
             ELSE IF IsListItem(line) /\ order # <<>>
             THEN ParseLines(Tail(lines), order,
                             [found EXCEPT ![Len(found)] = @ \cup {ItemPath(line)}])
             ELSE ParseLines(Tail(lines), order, found)

\* parseIntentMap: the section titles in file order and, for each title, the paths listed
\* under its last heading; list items before the first heading and other lines are dropped
parseIntentMap(content) ==
    LET parsed == ParseLines(MapLines(content, <<>>), <<>>, <<>>)
        titles == {parsed.order[k] : k \in 1..Len(parsed.order)}
        last(title) == CHOOSE k \in 1..Len(parsed.order) :
                          /\ parsed.order[k] = title
                          /\ \A j \in 1..Len(parsed.order) : parsed.order[j] = title => j <= k
    IN  [order |-> parsed.order,
         sections |-> [title \in titles |-> parsed.found[last(title)]]]

\* the UTF-16 code unit of a character of a path
CharCode(c) ==
    CASE c = "." -> 46 [] c = "/" -> 47 [] c = "A" -> 65 [] c = "B" -> 66 [] c = "Z" -> 90
      [] c = "a" -> 97 [] c = "d" -> 100 [] c = "s" -> 115 [] c = "t" -> 116 [] OTHER -> 0

\* a < b as Array.prototype.sort compares strings: by code units, a prefix first
Less(a, b) ==
    \/ Len(a) < Len(b) /\ SubSeq(b, 1, Len(a)) = a
    \/ \E i \in 1..Len(a) :
          /\ i <= Len(b)
          /\ SubSeq(a, 1, i - 1) = SubSeq(b, 1, i - 1)
          /\ CharCode(a[i]) < CharCode(b[i])

\* mutant: the paths of a section are written in descending order
SortedPaths_Descending(paths) ==
    [k \in 1..Cardinality(paths) |->
        CHOOSE p \in paths : Cardinality({q \in paths : Less(p, q)}) = k - 1]

\* Array.from(paths).sort()
SortedPaths(paths) ==
    [k \in 1..Cardinality(paths) |->
        CHOOSE p \in paths : Cardinality({q \in paths : Less(q, p)}) = k - 1]

RECURSIVE Flatten(_)
Flatten(parts) == IF parts = <<>> THEN <<>> ELSE Head(parts) \o Flatten(Tail(parts))

\* text.replace(/\n{3,}/g, "\n\n"): run is the number of line breaks just passed
RECURSIVE CollapseBreaks(_, _)
CollapseBreaks(text, run) ==
    IF text = <<>> THEN <<>>
    ELSE IF Head(text) # "\n" THEN <<Head(text)>> \o CollapseBreaks(Tail(text), 0)
    ELSE IF run >= 2 THEN CollapseBreaks(Tail(text), run)
    ELSE <<"\n">> \o CollapseBreaks(Tail(text), run + 1)

\* text.trimEnd(): blanks and line breaks at the end are removed
RECURSIVE TrimEndOfText(_)
TrimEndOfText(text) ==
    IF text # <<>> /\ text[Len(text)] \in Whitespace \cup {"\n"}
    THEN TrimEndOfText(SubSeq(text, 1, Len(text) - 1))
    ELSE text

IntentMapHeader ==
    <<"#", " ", "Intent Map", "\n", "\n",
      "Maps business intents to files. Updated when INTENT_EVOLUTION occurs.", "\n", "\n">>

\* serializeIntentMap: the header, then per title its heading, a blank line, its paths
\* sorted, a blank line; runs of blank lines collapsed, one line break at the end
serializeIntentMap(order, sections) ==
    LET item(p) == <<"-", " ", Backtick>> \o p \o <<Backtick, "\n">>
        items(title) == LET sorted == SortedPaths(sections[title])
                        IN  Flatten([k \in 1..Len(sorted) |-> item(sorted[k])])
        section(title) == <<"#", "#", " ">> \o title \o <<"\n", "\n">> \o items(title) \o <<"\n">>
    IN  TrimEndOfText(CollapseBreaks(IntentMapHeader
                                         \o Flatten([k \in 1..Len(order) |-> section(order[k])]),
                                     0))
            \o <<"\n">>

\* params of runIntentMapPostHook
IntentMapParams(id, p) == [intent_id |-> id, path |-> p]

\* mutant: an existing section is found by the exact id only
AddToIntentMap_ExactIdOnly(parsed, sectionTitle, params) ==
    LET order == parsed.order
        hits == {k \in 1..Len(order) : order[k] = params.intent_id}
        existingTitle == order[CHOOSE k \in hits : \A j \in hits : k <= j]
    IN  IF hits # {} /\ existingTitle # <<>>
        THEN [order |-> order,
              sections |-> [parsed.sections EXCEPT ![existingTitle] = @ \cup {params.path}]]
        ELSE [order |-> Append(order, sectionTitle),
              sections |-> [title \in DOMAIN parsed.sections \cup {sectionTitle} |->
                               IF title = sectionTitle THEN {params.path}
                               ELSE parsed.sections[title]]]

\* the sections after the path is added: under the first title that is the id or starts
\* with "<id>: ", else under a new title at the end
AddToIntentMap(parsed, sectionTitle, params) ==
    LET order == parsed.order
        hits == {k \in 1..Len(order) :
                    \/ order[k] = params.intent_id
                    \/ IsPrefix(params.intent_id \o <<":", " ">>, order[k])}
        existingTitle == order[CHOOSE k \in hits : \A j \in hits : k <= j]
    IN  IF hits # {} /\ existingTitle # <<>>
        THEN [order |-> order,
              sections |-> [parsed.sections EXCEPT ![existingTitle] = @ \cup {params.path}]]
        ELSE [order |-> Append(order, sectionTitle),
              sections |-> [title \in DOMAIN parsed.sections \cup {sectionTitle} |->
                               IF title = sectionTitle THEN {params.path}
                               ELSE parsed.sections[title]]]

\* mutant: a failed mkdir or writeFile is not caught
runIntentMapPostHook_Uncaught(store, file, params, env) ==
    LET parsed == IF file.exists /\ file.readable THEN parseIntentMap(file.content)
                  ELSE [order |-> <<>>, sections |-> <<>>]
        next == AddToIntentMap(parsed, resolveIntentTitle(store, params.intent_id), params)
        read == <<FileOp("readFile", IntentsPath), FileOp("readFile", IntentMapPath)>>
        mkdir == <<FileOp("mkdir", OrchestrationDir)>>
        write == <<FileOp("writeFile", IntentMapPath)>>
    IN  IF ~env.mkdir
        THEN HookDone("threw", read \o mkdir, <<>>, file, FALSE)
        ELSE IF ~env.write
        THEN HookDone("threw", read \o mkdir \o write, <<>>, file, FALSE)
        ELSE HookDone("returned", read \o mkdir \o write, <<>>,
                      File(serializeIntentMap(next.order, next.sections)), TRUE)

\* runIntentMapPostHook(task, params) on the intent store and the index file; env tells
\* whether mkdir and writeFile succeed
runIntentMapPostHook(store, file, params, env) ==
    LET parsed == IF file.exists /\ file.readable THEN parseIntentMap(file.content)
                  ELSE [order |-> <<>>, sections |-> <<>>]
        next == AddToIntentMap(parsed, resolveIntentTitle(store, params.intent_id), params)
        read == <<FileOp("readFile", IntentsPath), FileOp("readFile", IntentMapPath)>>
        mkdir == <<FileOp("mkdir", OrchestrationDir)>>
        write == <<FileOp("writeFile", IntentMapPath)>>
        failed == <<"[IntentMapPostHook] Failed to update intent map:">>
    IN  IF ~env.mkdir
        THEN HookDone("returned", read \o mkdir, failed, file, FALSE)
        ELSE IF ~env.write
        THEN HookDone("returned", read \o mkdir \o write, failed, file, FALSE)
        ELSE HookDone("returned", read \o mkdir \o write, <<>>,
                      File(serializeIntentMap(next.order, next.sections)), TRUE)

-----------------------------------------------------------------------------
(* The lessons file, .orchestration/AGENT.md.                              *)

AgentMdPath == <<cwd, <<".orchestration">>, <<"AGENT.md">>>>

\* params of appendLessonLearned
LessonParams(filePath, problemsMessage) ==
    [filePath |-> filePath, problemsMessage |-> problemsMessage]

\* the block appendLessonLearned writes
LessonSection(today, params) ==
    <<"#", "#", " ", "Lesson Learned", " ", "(", today, ")", "\n", "**File:**", " ">>
        \o params.filePath
        \o <<"\n", "**Problems:**", "\n">>
        \o Trim(params.problemsMessage)
        \o <<"\n", "\n">>

\* mutant: a blank path is skipped as well
LessonSkipped_BlankPath(params) ==
    Trim(params.filePath) = <<>> \/ Trim(params.problemsMessage) = <<>>

\* if (!filePath || !problemsMessage?.trim()) return
LessonSkipped(params) ==
    params.filePath = <<>> \/ Trim(params.problemsMessage) = <<>>

\* appendLessonLearned(cwd, filePath, problemsMessage) on the lessons text; env gives the
\* date and tells whether mkdir and appendFile succeed
appendLessonLearned(text, params, env) ==
    LET mkdir == <<FileOp("mkdir", OrchestrationDir)>>
        append == <<FileOp("appendFile", AgentMdPath)>>
        failed == <<"[LessonRecording] appendLessonLearned failed:">>
    IN  IF LessonSkipped(params)
        THEN HookDone("returned", <<>>, <<>>, text, FALSE)
        ELSE IF ~env.mkdir
        THEN HookDone("returned", mkdir, failed, text, FALSE)
        ELSE IF ~env.append
        THEN HookDone("returned", mkdir \o append, failed, text, FALSE)
        ELSE HookDone("returned", mkdir \o append, <<>>,
                      text \o LessonSection(env.today, params), TRUE)

-----------------------------------------------------------------------------
(* The index and lessons specification: runIntentMapPostHook and           *)
(* appendLessonLearned are called, in any order and with any failure of    *)
(* mkdir and of the write, on an index file that is missing, unreadable,   *)
(* written by an earlier update or edited by hand.                         *)

Today == "2026-01-02"

\* whether mkdir succeeds and whether the write (writeFile, appendFile) after it does
WriteEnvs ==
    {[today |-> Today, mkdir |-> TRUE, write |-> TRUE, append |-> TRUE],
     [today |-> Today, mkdir |-> FALSE, write |-> TRUE, append |-> TRUE],
     [today |-> Today, mkdir |-> TRUE, write |-> FALSE, append |-> FALSE]}

\* active_intents.yaml: missing; A with a padded name and B with a blank one; a null
\* entry before A
IndexStores ==
    {[kind |-> "missing", entries |-> <<>>],
     [kind |-> "list", entries |-> <<NamedIntent(IdA, Some(<<" ", "N">>)),
                                     NamedIntent(IdB, Some(<<" ">>))>>],
     [kind |-> "list", entries |-> <<NullEntry, NamedIntent(IdA, Some(<<"N">>))>>]}

\* an index with one section, as in the tests of the hook
OneSectionMap ==
    <<"#", " ", "Intent Map", "\n", "\n",
      "#", "#", " ", "B", "\n", "\n",
      "-", " ", Backtick, "d", "/", "a", Backtick, "\n">>

\* an index edited by hand: an item before any heading, a heading with extra blanks and an
\* older name, items unsorted and repeated, a line of prose, a section without items
HandEditedMap ==
    <<"-", " ", Backtick, "s", Backtick, "\n",
      "#", "#", " ", " ", "A", ":", " ", "Old", " ", "\n",
      "-", " ", " ", Backtick, "s", "/", "a", ".", "t", Backtick, " ", "\n",
      "-", " ", Backtick, "d", "/", "a", Backtick, "\n",
      "-", " ", Backtick, "s", "/", "a", ".", "t", Backtick, "\n",
      "note", "\n",
      "#", "#", " ", "B", "\n">>

\* an index edited by hand in which the heading of A comes twice
RepeatedHeadingMap ==
    <<"#", "#", " ", "A", "\n",
      "-", " ", Backtick, "d", "/", "a", Backtick, "\n",
      "#", "#", " ", "A", "\n",
      "-", " ", Backtick, "s", Backtick, "\n">>

IndexFiles ==
    {Missing, Unreadable, File(OneSectionMap), File(HandEditedMap), File(RepeatedHeadingMap)}

UpdateParams == {IntentMapParams(id, p) : id \in {IdA, IdB}, p \in {SrcFile, DocsFile}}

AppendParams ==
    {LessonParams(filePath, problemsMessage) :
        filePath \in {<<>>, <<" ">>, SrcFile},
        problemsMessage \in {<<>>, <<" ">>, <<" ", "E">>}}

IndexInit ==
    /\ activeIntentId = None
    /\ intentsFile \in IndexStores
    /\ orchIgnore = None /\ rootIgnore = None
    /\ disk = Disk(Missing)
    /\ pc = "idle"
    /\ call = NoContext
    /\ result = NoResult
    /\ prompts = <<>>
    /\ reads = {}
    /\ pushed = None
    /\ priorTrace = <<>>
    /\ trace = <<>>
    /\ appended = <<>>
    /\ intentMap \in IndexFiles
    /\ agentMd = <<>>
    /\ post = NoPost
    /\ history = NoHistory
    /\ running = NoUpdates

\* the steps of an index update that fail
indexFaults(store, file, env) ==
    (IF store.kind \in {"missing", "unreadable", "parse_error"} THEN {"store"} ELSE {})
    \cup (IF file.exists /\ file.readable THEN {} ELSE {"read"})
    \cup (IF env.mkdir THEN {} ELSE {"mkdir"})
    \cup (IF env.mkdir /\ ~env.write THEN {"write"} ELSE {})

\* the steps of a lesson append that fail
lessonFaults(params, env) ==
    IF LessonSkipped(params) THEN {}
    ELSE (IF env.mkdir THEN {} ELSE {"mkdir"})
         \cup (IF env.mkdir /\ ~env.append THEN {"append"} ELSE {})

\* the number of lesson blocks in the lessons text
LessonCount(text) == Cardinality({i \in 1..Len(text) : text[i] = "**File:**"})

\* runIntentMapPostHook is called with params; a successful write is remembered with the
\* index it replaced
Update(params, env) ==
    /\ Len(appended) + LessonCount(agentMd) < MaxRecords
    /\ LET out == runIntentMapPostHook(intentsFile, intentMap, params, env)
       IN  /\ post' = PostCall("index", params, out, indexFaults(intentsFile, intentMap, env))
           /\ intentMap' = out.file
           /\ appended' = IF out.wrote
                          THEN Append(appended, [params |-> params, before |-> intentMap])
                          ELSE appended
    /\ UNCHANGED <<gateVars, trace, priorTrace, agentMd, history, running>>

\* appendLessonLearned is called with params
Lesson(params, env) ==
    /\ Len(appended) + LessonCount(agentMd) < MaxRecords
    /\ LET out == appendLessonLearned(agentMd, params, env)
       IN  /\ post' = PostCall("lesson", params, out, lessonFaults(params, env))
           /\ agentMd' = out.file
    /\ UNCHANGED <<gateVars, trace, priorTrace, appended, intentMap, history, running>>

IndexNext ==
    \/ \E params \in UpdateParams : \E env \in WriteEnvs : Update(params, env)
    \/ \E params \in AppendParams : \E env \in WriteEnvs : Lesson(params, env)

IndexSpec == IndexInit /\ [][IndexNext]_vars

-----------------------------------------------------------------------------
(* C15, C19: failures and no-ops of the index update and the lesson append. *)

IndexCalled == post.hook = "index"

LessonCalled == post.hook = "lesson"

\* C15 as stated: when reading, directory creation or writing fails in an index update or
\* a lesson append, the error is logged and the call returns normally.
C15_EveryFailureLogged ==
    ((IndexCalled \/ LessonCalled) /\ post.faults # {})
        => (post.outcome = "returned" /\ post.log # <<>>)

\* the index the last update has written holds one section, for its intent, with its path
WrittenFromEmpty ==
    LET parsed == parseIntentMap(intentMap.content)
    IN  /\ intentMap.exists /\ intentMap.readable
        /\ Len(parsed.order) = 1
        /\ \/ parsed.order[1] = post.params.intent_id
           \/ IsPrefix(post.params.intent_id \o <<":", " ">>, parsed.order[1])
        /\ parsed.sections[parsed.order[1]] = {post.params.path}

\* C15 as amended: an index update and a lesson append always return normally.  A failed
\* mkdir or write is logged and nothing is written.  A failed read in the update (intent
\* store or index missing or unreadable) is not logged: the update goes on and writes the
\* index, starting from an empty index when the index could not be read.
C15_WriteFailuresLogged ==
    (IndexCalled \/ LessonCalled)
        => /\ post.outcome = "returned"
           /\ post.log # <<>> <=> post.faults \cap {"mkdir", "write", "append"} # {}
           /\ post.log # <<>> => ~post.wrote
           /\ (IndexCalled /\ post.log = <<>>) => post.wrote
           /\ (IndexCalled /\ post.wrote /\ "read" \in post.faults) => WrittenFromEmpty

\* writeFile fails in an update of a missing index: logged, the call returns, no index
C15_Witness ==
    /\ IndexCalled
    /\ post.faults = {"read", "write"}
    /\ post.outcome = "returned"
    /\ post.log # <<>>
    /\ intentMap = Missing

\* C19 as stated: a lesson append with an empty or blank path, or an empty or blank
\* problems text, makes no file operation.
C19_BlankArgumentsNoOp ==
    (LessonCalled /\ (Trim(post.params.filePath) = <<>> \/ Trim(post.params.problemsMessage) = <<>>))
        => (post.ops = <<>> /\ ~post.wrote)

\* the lessons text ends with the block of the last call
EndsWithLesson ==
    LET block == LessonSection(Today, post.params)
    IN  /\ Len(agentMd) >= Len(block)
        /\ SubSeq(agentMd, Len(agentMd) - Len(block) + 1, Len(agentMd)) = block

\* C19 as amended: a lesson append makes no file operation exactly when the path is empty
\* or the problems text is empty or blank.  A path of blanks only is not skipped: with a
\* non-blank problems text the directory is created and the block is appended.
C19_EmptyArgumentsNoOp ==
    LessonCalled
        => /\ post.ops = <<>>
              <=> (post.params.filePath = <<>> \/ Trim(post.params.problemsMessage) = <<>>)
           /\ post.ops = <<>> => (~post.wrote /\ post.log = <<>> /\ post.outcome = "returned")
           /\ (post.ops # <<>> /\ post.faults = {}) => (post.wrote /\ EndsWithLesson)

\* a path of one blank with a problems text: the block is appended
C19_Witness ==
    /\ LessonCalled
    /\ post.params.filePath = <<" ">>
    /\ post.params.problemsMessage = <<" ", "E">>
    /\ post.wrote
    /\ EndsWithLesson

-----------------------------------------------------------------------------
(* C16, C17: the shape of the index an update writes.                      *)

\* in the text, the list items under one heading are in strictly ascending order: sorted,
\* and no path twice
SectionsSorted(text) ==
    LET lines == MapLines(text, <<>>)
        heads == {i \in 1..Len(lines) : IsSectionHeader(lines[i])}
        items == {i \in 1..Len(lines) : IsListItem(lines[i])}
    IN  \A i \in items : \A j \in items :
           (i < j /\ ~\E h \in heads : i < h /\ h < j)
               => Less(ItemPath(lines[i]), ItemPath(lines[j]))

\* the lines of the text that list path p under the first heading for the intent id
EntriesFor(text, id, p) ==
    LET lines == MapLines(text, <<>>)
        heads == {i \in 1..Len(lines) : IsSectionHeader(lines[i])}
        mine == {h \in heads : \/ SectionTitle(lines[h]) = id
                               \/ IsPrefix(id \o <<":", " ">>, SectionTitle(lines[h]))}
        first == CHOOSE h \in mine : \A g \in mine : h <= g
        later == {h \in heads : h > first}
        until == IF later = {} THEN Len(lines) ELSE (CHOOSE h \in later : \A g \in later : h <= g) - 1
    IN  IF mine = {} THEN {}
        ELSE {i \in (first + 1)..until : IsListItem(lines[i]) /\ ItemPath(lines[i]) = p}

WritesSucceed == [today |-> Today, mkdir |-> TRUE, write |-> TRUE, append |-> TRUE]

\* the index as the k-th successful update left it
IndexAfter(k) == IF k = Len(appended) THEN intentMap ELSE appended[k + 1].before

ResolvableName(store, id) ==
    IF store.kind # "list" THEN None
    ELSE LET at == {i \in 1..Len(store.entries) :
                       ~store.entries[i].isNull /\ store.entries[i].id = Some(id)}
             first == CHOOSE i \in at : \A j \in at : i <= j
         IN  IF at = {} THEN None
             ELSE IF \E i \in 1..first : store.entries[i].isNull THEN None
             ELSE IF ~IsSome(store.entries[first].name) THEN None
             ELSE IF Trim(Get(store.entries[first].name)) = <<>> THEN None
             ELSE Some(Trim(Get(store.entries[first].name)))

\* the index the last successful update replaced, parsed; empty when missing or unreadable
IndexBefore ==
    LET before == appended[Len(appended)].before
    IN  IF before.exists /\ before.readable THEN parseIntentMap(before.content)
        ELSE [order |-> <<>>, sections |-> <<>>]

\* the last update was successful and its intent had no section
NewSectionWritten ==
    /\ IndexCalled /\ post.wrote
    /\ \A k \in 1..Len(IndexBefore.order) :
          /\ IndexBefore.order[k] # post.params.intent_id
          /\ ~IsPrefix(post.params.intent_id \o <<":", " ">>, IndexBefore.order[k])

-----------------------------------------------------------------------------
(* C21: workspaces without active_intents.yaml.                            *)

\* hasOrchestrationIntents: fs.access succeeds when the file exists
hasOrchestrationIntents(file) == file.kind # "missing"

INTENT_HANDSHAKE_SECTION ==
    <<"====", "\n", "\n", "INTENT-DRIVEN PROTOCOL (REQUIRED WHEN ACTIVE INTENTS EXIST)", "\n", "\n",
      "You are an Intent-Driven Architect. You MUST NOT write code or perform destructive actions",
      "until you have called select_active_intent with a valid intent_id">>

\* getIntentHandshakeSection(cwd): the mandate, or the empty string
getIntentHandshakeSection(file) ==
    IF hasOrchestrationIntents(file) THEN INTENT_HANDSHAKE_SECTION ELSE <<>>

\* C21: in a workspace without .orchestration/active_intents.yaml the handshake section
\* of the system prompt is the empty string and a checked destructive tool is not
\* blocked.
C21_NonOrchestrationUnchanged ==
    (Checked /\ intentsFile.kind = "missing")
        => /\ getIntentHandshakeSection(intentsFile) = <<>>
           /\ Destructive => (~result.threw /\ result.allow)

-----------------------------------------------------------------------------
(* C22, C23: the order of the checks and what an allow guarantees.         *)

\* the search of the store for the declared id ends without an exception
StoreSearchEnds == StoreYieldsNoMatch \/ DeclaredEntries # {}

\* positions of the targets that are excluded or out of scope
OffendingTargets == {i \in 1..Len(Targets) : TargetIgnored(i) \/ TargetOutOfScope(i)}

FirstOffending == CHOOSE i \in OffendingTargets : \A j \in OffendingTargets : i <= j

\* the staleness check applies to the call and finds a stale target
StalePending ==
    /\ call.toolName \in TOOLS_WITH_CONTENT_HASH_CHECK
    /\ SuppliesExpectedDigest
    /\ \E i \in 1..Len(Targets) : TargetStale(i)

\* the denial conditions that hold for the checked call, by their place in the order
PendingDenials ==
    (IF NoDeclaredIntent THEN {1} ELSE {})
    \cup (IF ~NoDeclaredIntent /\ StoreYieldsNoMatch THEN {2} ELSE {})
    \cup (IF DeclaredIsExcluded THEN {3} ELSE {})
    \cup (IF ~NoDeclaredIntent /\ CallIntentMismatch THEN {4} ELSE {})
    \cup (IF DeclaredInStore /\ OffendingTargets # {} THEN {5} ELSE {})
    \cup (IF StalePending THEN {6} ELSE {})

FirstPending == CHOOSE k \in PendingDenials : \A j \in PendingDenials : k <= j

\* C22: when denial conditions hold for a destructive call and no override is approved,
\* the denial reported is that of the first condition in the order: no declared intent,
\* declared intent not in the store, declared intent excluded, write_to_file intent
\* mismatch, the first target in payload order that is excluded or out of scope
\* (exclusion before scope for that target), staleness.  A stale target that is out of
\* scope gives SCOPE_VIOLATION.
C22_FirstDenialReported ==
    (Checked /\ Destructive /\ ~OverrideApproved /\ StoreSearchEnds /\ PendingDenials # {})
        => /\ ~result.threw /\ ~result.allow
           /\ FirstPending \in {1, 2} => ErrorTypeIs("MISSING_OR_INVALID_INTENT")
           /\ FirstPending = 3 => ErrorTypeIs("INTENT_IGNORED")
           /\ FirstPending = 4 => ErrorTypeIs("HOOK_BLOCKED")
           /\ (FirstPending = 5 /\ TargetIgnored(FirstOffending))
                 => /\ ErrorTypeIs("INTENTIGNORE_PATH_BLOCKED")
                    /\ Get(result.error) = PathBlockedMessage(Targets[FirstOffending])
           /\ (FirstPending = 5 /\ ~TargetIgnored(FirstOffending))
                 => /\ ErrorTypeIs("SCOPE_VIOLATION")
                    /\ Get(result.error)
                          = ScopeViolationMessage(Get(activeIntentId), Targets[FirstOffending])
           /\ FirstPending = 6 => ErrorTypeIs("STALE_FILE")

\* apply_diff on a target that is out of scope and stale, with an expected digest: the
\* scope violation is reported, not the staleness
C22_Witness ==
    /\ Checked /\ ~OverrideApproved
    /\ call.toolName = "apply_diff"
    /\ PendingDenials = {5, 6}
    /\ TargetOutOfScope(1) /\ ~TargetIgnored(1) /\ TargetStale(1)
    /\ ErrorTypeIs("SCOPE_VIOLATION")

\* the store holds an entry with the declared id
DeclaredPresent ==
    /\ intentsFile.kind = "list"
    /\ \E i \in 1..Len(intentsFile.entries) :
          ~intentsFile.entries[i].isNull /\ intentsFile.entries[i].id = activeIntentId

\* C23: soundness of allow.  When check returns allow for a destructive operation and
\* the override channel has not answered yes, then at that check a non-empty intent is
\* declared, the store holds it, no ignore file excludes it, a write_to_file call names
\* no other intent, no target path matches an ignored path pattern, and every target
\* path matches the owned_scope of the intent unless that scope is empty or absent.
C23_AllowIsSound ==
    (Checked /\ Destructive /\ ~result.threw /\ result.allow /\ ~OverrideApproved)
        => /\ ~NoDeclaredIntent
           /\ DeclaredPresent
           /\ ~DeclaredIsExcluded
           /\ (call.toolName = "write_to_file"
                  => \/ ~IsSome(call.toolUse.nativeArgs.intent_id)
                     \/ call.toolUse.nativeArgs.intent_id = activeIntentId)
           /\ \A i \in 1..Len(Targets) :
                 /\ ~matchesAnyPattern(Targets[i], IgnoredPatterns)
                 /\ \/ DeclaredScope = <<>>
                    \/ matchesAnyPattern(Targets[i], DeclaredScope)

\* a two-file patch allowed without any prompt, under a non-empty scope and with
\* ignored path patterns in force
C23_Witness ==
    /\ Checked /\ ~result.threw /\ result.allow
    /\ prompts = <<>>
    /\ call.toolName = "apply_patch"
    /\ Len(Targets) = 2
    /\ DeclaredScope # <<>>
    /\ IgnoredPatterns # <<>>

-----------------------------------------------------------------------------
\* no target of the call is a file that exists and can be read
NoReadableTarget ==
    \A i \in 1..Len(Targets) : ~(TargetFile(i).exists /\ TargetFile(i).readable)

\* C27: the staleness check skips a target that does not exist or cannot be read, and
\* an absent, empty or whitespace-only expected digest disables it.  A checked
\* destructive call none of whose targets is a readable existing file, or that supplies
\* no expected digest, is never denied as stale, and is allowed when it passes the
\* intent, exclusion and scope checks; in particular a write that creates a file is
\* allowed whatever digest it expects.
C27_AbsentTargetSkipped ==
    (Checked /\ Destructive /\ (NoReadableTarget \/ ~SuppliesExpectedDigest))
        => /\ ~ErrorTypeIs("STALE_FILE")
           /\ PathChecksPass => (~result.threw /\ result.allow)

\* write_to_file creates a file that is not on disk, expecting the digest of some
\* content, and is allowed without any prompt
C27_Witness ==
    /\ Checked /\ ~result.threw /\ result.allow
    /\ prompts = <<>>
    /\ call.toolName = "write_to_file"
    /\ Len(Targets) = 1
    /\ ~TargetFile(1).exists
    /\ SuppliesExpectedDigest

-----------------------------------------------------------------------------
\* the lines of the patch handed to apply_patch
PatchOfCall ==
    IF IsSome(call.toolUse.nativeArgs.patch) THEN Get(call.toolUse.nativeArgs.patch)
    ELSE IF IsSome(call.toolUse.params.patch) THEN Get(call.toolUse.params.patch)
    ELSE <<>>

\* the normalized paths named by the Add File, Update File and Delete File lines
MarkerPaths ==
    {normalizePath(Trim(Tail(PatchOfCall[i]))) :
        i \in {j \in 1..Len(PatchOfCall) :
                  /\ PatchOfCall[j] # <<>>
                  /\ Head(PatchOfCall[j]) \in {"*** Add File: ", "*** Update File: ",
                                               "*** Delete File: "}
                  /\ Trim(Tail(PatchOfCall[j])) # <<>>}}

\* the path matches an ignored path pattern, or lies outside the non-empty scope of
\* the declared intent
PathOffends(p) ==
    \/ matchesAnyPattern(p, IgnoredPatterns)
    \/ /\ DeclaredEntries # {}
       /\ DeclaredScope # <<>>
       /\ ~matchesAnyPattern(p, DeclaredScope)

\* C28: for apply_patch the checked paths are exactly the paths named by the file
\* markers of the patch, and a patch one of whose marker paths matches an ignored
\* path pattern or lies outside a non-empty owned_scope is not allowed unless the
\* override is approved.
C28_EveryPatchPathChecked ==
    (Checked /\ call.toolName = "apply_patch")
        => /\ {Targets[i] : i \in 1..Len(Targets)} = MarkerPaths
           /\ (~OverrideApproved /\ \E p \in MarkerPaths : PathOffends(p))
                 => (~result.threw => ~result.allow)

\* a patch of two files whose first path passes and whose second path offends is
\* denied for the second path
C28_Witness ==
    /\ Checked /\ ~OverrideApproved
    /\ call.toolName = "apply_patch"
    /\ ~NoDeclaredIntent
    /\ Len(Targets) = 2
    /\ ~PathOffends(Targets[1])
    /\ PathOffends(Targets[2])
    /\ ~result.threw /\ ~result.allow
    /\ \/ result.error = Some(PathBlockedMessage(Targets[2]))
       \/ result.error = Some(ScopeViolationMessage(Get(activeIntentId), Targets[2]))

-----------------------------------------------------------------------------
(* Pattern matching on its own: matchesPattern applied to one target path  *)
(* and one pattern.  Here call holds the two arguments and result the      *)
(* value returned.                                                         *)

NestedFile == <<"s", "/", "a", "/", "b", ".", "t">>

DeepFile == <<"s", "/", "x", "/", "y", "/", "a", ".", "t">>

SubFile == <<"s", "/", "x", "/", "a", ".", "t">>

TopFile == <<"a", ".", "t">>

OtherFile == <<"s", "/", "a", "x", "t">>

TokenFile == <<doubleStarToken, "/", "a", ".", "t">>

GlobTargets ==
    {SrcFile, NestedFile, DeepFile, SubFile, TopFile, OtherFile, TokenFile, DotSrcFile,
     DocsFile, SecretFile}

GlobPatterns ==
    {SrcGlob,
     <<"s", "/", "*", "*", "/", "a", ".", "t">>,
     <<"*", "*", "/", "a", ".", "t">>,
     <<"*", "*">>,
     <<"s", "/", "*", ".", "t">>,
     <<"s", "/", "a", ".", "*">>,
     <<".", "/", "s", "/", "*">>,
     <<"s", "\\", "*", ".", "t">>,
     <<"*">>,
     SrcFile,
     DocsGlob,
     <<doubleStarToken, "/", "*", ".", "t">>}

GlobInit ==
    /\ call \in [targetPath : GlobTargets, pattern : GlobPatterns]
    /\ pc = "idle"
    /\ result = [matched |-> FALSE]
    /\ activeIntentId = None
    /\ intentsFile = [kind |-> "missing", entries |-> <<>>]
    /\ orchIgnore = None /\ rootIgnore = None
    /\ disk = Disk(Missing)
    /\ prompts = <<>>
    /\ reads = {}
    /\ pushed = None
    /\ trace = <<>>
    /\ priorTrace = <<>>
    /\ appended = <<>>
    /\ intentMap = Missing
    /\ agentMd = <<>>
    /\ post = NoPost
    /\ history = NoHistory
    /\ running = NoUpdates

\* matchesPattern(targetPath, pattern) is called and returns
Match ==
    /\ pc = "idle"
    /\ result' = [matched |-> matchesPattern(call.targetPath, call.pattern)]
    /\ pc' = "matched"
    /\ UNCHANGED <<activeIntentId, intentsFile, orchIgnore, rootIgnore, disk, call, prompts,
                   reads, pushed>>
    /\ UNCHANGED auditVars

\* the caller goes on to the next pattern or the next target path
NextMatch ==
    /\ pc = "matched"
    /\ call' \in [targetPath : GlobTargets, pattern : GlobPatterns]
    /\ result' = [matched |-> FALSE]
    /\ pc' = "idle"
    /\ UNCHANGED <<activeIntentId, intentsFile, orchIgnore, rootIgnore, disk, prompts, reads,
                   pushed>>
    /\ UNCHANGED auditVars

GlobNext == Match \/ NextMatch

GlobSpec == GlobInit /\ [][GlobNext]_vars

Matched == pc = "matched"

PatternOfCall == normalizePath(call.pattern)

TargetOfCall == normalizePath(call.targetPath)

HasDoubleStar(p) == \E i \in 1..(Len(p) - 1) : p[i] = "*" /\ p[i + 1] = "*"

\* what a pattern denotes: "**/" stands for zero or more whole segments, a final "**"
\* for the rest of the path, "*" for a run of characters without "/", and every
\* other character for itself
RECURSIVE GlobDenotes(_, _)
GlobDenotes(p, s) ==
    IF p = <<>> THEN s = <<>>
    ELSE IF Len(p) >= 3 /\ p[1] = "*" /\ p[2] = "*" /\ p[3] = "/"
         THEN \/ GlobDenotes(SubSeq(p, 4, Len(p)), s)
              \/ \E k \in 1..Len(s) :
                    s[k] = "/" /\ GlobDenotes(SubSeq(p, 4, Len(p)), SubSeq(s, k + 1, Len(s)))
    ELSE IF p = <<"*", "*">> THEN TRUE
    ELSE IF Head(p) = "*"
         THEN \E k \in 0..Len(s) :
                 /\ \A i \in 1..k : s[i] # "/"
                 /\ GlobDenotes(Tail(p), SubSeq(s, k + 1, Len(s)))
    ELSE s # <<>> /\ Head(s) = Head(p) /\ GlobDenotes(Tail(p), Tail(s))

\* C29: in a pattern "**" matches zero or more whole path segments, across "/":
\* s/** matches s/a.t and s/a/b.t, and s/**/a.t matches both s/a.t (zero segments)
\* and s/x/y/a.t.  For every pattern with "**", matchesPattern returns what the
\* pattern denotes.
C29_DoubleStarSpansSegments ==
    (Matched /\ HasDoubleStar(PatternOfCall))
        => result.matched = GlobDenotes(PatternOfCall, TargetOfCall)

\* C30: after both are normalized, a pattern without "*" matches only the identical
\* path, a single "*" matches a run of characters inside one segment and never
\* crosses "/", and every other character of the pattern matches only itself.  For
\* every pattern without "**", matchesPattern returns what the pattern denotes.
C30_SingleStarAndLiterals ==
    (Matched /\ ~HasDoubleStar(PatternOfCall))
        => result.matched = GlobDenotes(PatternOfCall, TargetOfCall)

\* where matchesPattern and the denotation differ: the pattern holds the text of the
\* placeholder the code substitutes for "**", or its "**/" would have to stand for no
\* segment at all
MatchesAsDenotedOtherwise ==
    (Matched /\ ~Includes(PatternOfCall, <<doubleStarToken>>))
        => /\ result.matched => GlobDenotes(PatternOfCall, TargetOfCall)
           /\ (GlobDenotes(PatternOfCall, TargetOfCall) /\ ~result.matched)
                 => /\ Includes(PatternOfCall, <<"*", "*", "/">>)
                    /\ \E k \in 1..Len(PatternOfCall) :
                          /\ SubSeq(PatternOfCall, k, k + 2) = <<"*", "*", "/">>
                          /\ GlobDenotes(SubSeq(PatternOfCall, 1, k - 1)
                                            \o SubSeq(PatternOfCall, k + 3, Len(PatternOfCall)),
                                         TargetOfCall)

-----------------------------------------------------------------------------
(* Overlapping index updates.  runIntentMapPostHook is an async function:  *)
(* between its awaits (reading intent_map.md, then mkdir and writeFile)    *)
(* another call of the same process may run.  A call is modelled by three  *)
(* steps: it is called and resolves its section title, it reads and parses *)
(* the index and builds the new text, it writes that text.                 *)

\* runIntentMapPostHook(task, params) is called: up to the await of fs.readFile
UpdateCalled(c, params) ==
    /\ running[c].step = "idle"
    /\ running' = [running EXCEPT ![c] =
                      [step |-> "called", params |-> params,
                       sectionTitle |-> resolveIntentTitle(intentsFile, params.intent_id),
                       out |-> <<>>, after |-> {}]]
    /\ UNCHANGED <<gateVars, trace, priorTrace, appended, intentMap, agentMd, post, history>>

\* readFile returns: the index is parsed, the path is added and the new text is built, up
\* to the await of fs.mkdir
UpdateRead(c) ==
    /\ running[c].step = "called"
    /\ LET parsed == IF intentMap.exists /\ intentMap.readable
                     THEN parseIntentMap(intentMap.content)
                     ELSE [order |-> <<>>, sections |-> <<>>]
           next == AddToIntentMap(parsed, running[c].sectionTitle, running[c].params)
       IN  running' = [running EXCEPT ![c].step = "read",
                                      ![c].out = serializeIntentMap(next.order, next.sections),
                                      ![c].after = {d \in Calls : running[d].step = "done"}]
    /\ UNCHANGED <<gateVars, trace, priorTrace, appended, intentMap, agentMd, post, history>>

\* mkdir and writeFile return: the text built from what was read replaces the index
UpdateWritten(c) ==
    /\ running[c].step = "read"
    /\ intentMap' = File(running[c].out)
    /\ running' = [running EXCEPT ![c].step = "done"]
    /\ UNCHANGED <<gateVars, trace, priorTrace, appended, agentMd, post, history>>

OverlapNext ==
    \/ \E c \in Calls : \E params \in UpdateParams : UpdateCalled(c, params)
    \/ \E c \in Calls : UpdateRead(c)
    \/ \E c \in Calls : UpdateWritten(c)

OverlapSpec == IndexInit /\ [][OverlapNext]_vars

BothCompleted == \A c \in Calls : running[c].step = "done"

\* the index lists the path under the section of the intent
ListedInIndex(params) ==
    /\ intentMap.exists /\ intentMap.readable
    /\ LET parsed == parseIntentMap(intentMap.content)
       IN  \E k \in 1..Len(parsed.order) :
              /\ \/ parsed.order[k] = params.intent_id
                 \/ IsPrefix(params.intent_id \o <<":", " ">>, parsed.order[k])
              /\ params.path \in parsed.sections[parsed.order[k]]

\* C26: index updates are monotonic within one process.  After two calls of Update by
\* the same process have both completed, even when their executions overlapped, the
\* index lists the path of each call; no update is lost.
C26_NoUpdateLost ==
    BothCompleted => \A c \in Calls : ListedInIndex(running[c].params)

\* two calls one of which read the index only after the other had written it lose nothing
SequentialUpdatesKept ==
    (BothCompleted /\ \E c \in Calls : running[c].after # {})
        => \A c \in Calls : ListedInIndex(running[c].params)

-----------------------------------------------------------------------------
(* The task: select_active_intent and the checks of one task.              *)

\* buildIntentContext(intent): the entries of the model carry no name and no constraints
buildIntentContext(intent) ==
    LET ownedScope == IF IsSome(intent.owned_scope) THEN Get(intent.owned_scope) ELSE <<>>
        scopeLines == [k \in 1..Len(ownedScope) |-> <<"  - ">> \o ownedScope[k] \o <<"\n">>]
    IN  <<"<intent_context>", "\n", "<intent_id>">> \o Get(intent.id)
            \o <<"</intent_id>", "\n", "<name>", "undefined", "</name>", "\n", "\n",
                 "<owned_scope>", "\n">>
            \o (IF Len(ownedScope) > 0 THEN Flatten(scopeLines)
                ELSE <<"  (no scope defined)", "\n">>)
            \o <<"</owned_scope>", "\n", "\n", "<constraints>", "\n",
                 "  (no constraints defined)", "\n", "</constraints>", "\n",
                 "</intent_context>">>

\* the ids listed by the error of an unknown intent
AvailableIds(activeIntents) ==
    IF Len(activeIntents) = 0 THEN <<"(none)">>
    ELSE Flatten([k \in 1..Len(activeIntents) |->
                     (IF k > 1 THEN <<", ">> ELSE <<>>)
                         \o (IF IsSome(activeIntents[k].id) THEN Get(activeIntents[k].id)
                             ELSE <<>>)])

\* mutant: the task's declared intent is never assigned
execute_SetsNothing(file, intent_id, current) ==
    LET found == findActiveIntent(Some(file), Get(intent_id))
    IN  IF ~IsSome(intent_id) \/ Get(intent_id) = <<>>
        THEN [outcome |-> "missing_param", activeIntentId |-> current, activeIntent |-> None,
              toolResult |-> None]
        ELSE IF file.kind \in {"missing", "unreadable", "parse_error"}
        THEN [outcome |-> "read_error", activeIntentId |-> current, activeIntent |-> None,
              toolResult |-> Some(<<"Failed to read active_intents.yaml: ">>)]
        ELSE IF found.threw
        THEN [outcome |-> "threw", activeIntentId |-> current, activeIntent |-> None,
              toolResult |-> None]
        ELSE IF ~found.found
        THEN [outcome |-> "not_found", activeIntentId |-> current, activeIntent |-> None,
              toolResult |-> Some(<<"Intent \"">> \o Get(intent_id)
                                     \o <<"\" not found in active_intents.yaml. Available intents: ">>
                                     \o AvailableIds(IF file.kind = "list" THEN file.entries
                                                     ELSE <<>>))]
        ELSE [outcome |-> "selected", activeIntentId |-> current, activeIntent |-> None,
              toolResult |-> Some(buildIntentContext(found.intent))]

\* mutant: the requested id is stored on the task before the store is searched
execute_SetsIdBeforeLookup(file, intent_id, current) ==
    LET found == findActiveIntent(Some(file), Get(intent_id))
    IN  IF ~IsSome(intent_id) \/ Get(intent_id) = <<>>
        THEN [outcome |-> "missing_param", activeIntentId |-> current, activeIntent |-> None,
              toolResult |-> None]
        ELSE IF file.kind \in {"missing", "unreadable", "parse_error"}
        THEN [outcome |-> "read_error", activeIntentId |-> current, activeIntent |-> None,
              toolResult |-> Some(<<"Failed to read active_intents.yaml: ">>)]
        ELSE IF found.threw
        THEN [outcome |-> "threw", activeIntentId |-> intent_id, activeIntent |-> None,
              toolResult |-> None]
        ELSE IF ~found.found
        THEN [outcome |-> "not_found", activeIntentId |-> intent_id, activeIntent |-> None,
              toolResult |-> Some(<<"Intent \"">> \o Get(intent_id)
                                     \o <<"\" not found in active_intents.yaml. Available intents: ">>
                                     \o AvailableIds(IF file.kind = "list" THEN file.entries
                                                     ELSE <<>>))]
        ELSE [outcome |-> "selected", activeIntentId |-> intent_id,
              activeIntent |-> Some(found.intent),
              toolResult |-> Some(buildIntentContext(found.intent))]

\* SelectActiveIntentTool.execute on the intent store: how the call ends, the declared
\* intent of the task after it (activeIntent: None when it is left as it was), and the
\* tool result it pushes itself
execute(file, intent_id, current) ==
    LET found == findActiveIntent(Some(file), Get(intent_id))
    IN  IF ~IsSome(intent_id) \/ Get(intent_id) = <<>>
        THEN [outcome |-> "missing_param", activeIntentId |-> current, activeIntent |-> None,
              toolResult |-> None]
        ELSE IF file.kind \in {"missing", "unreadable", "parse_error"}
        THEN [outcome |-> "read_error", activeIntentId |-> current, activeIntent |-> None,
              toolResult |-> Some(<<"Failed to read active_intents.yaml: ">>)]
        ELSE IF found.threw
        THEN [outcome |-> "threw", activeIntentId |-> current, activeIntent |-> None,
              toolResult |-> None]
        ELSE IF ~found.found
        THEN [outcome |-> "not_found", activeIntentId |-> current, activeIntent |-> None,
              toolResult |-> Some(<<"Intent \"">> \o Get(intent_id)
                                     \o <<"\" not found in active_intents.yaml. Available intents: ">>
                                     \o AvailableIds(IF file.kind = "list" THEN file.entries
                                                     ELSE <<>>))]
        ELSE [outcome |-> "selected", activeIntentId |-> intent_id,
              activeIntent |-> Some(found.intent),
              toolResult |-> Some(buildIntentContext(found.intent))]

\* the checks a task remembers: the latest run of identical checks of a destructive
\* call, at most this many
KeptChecks == 3

\* a check as the task remembers it: the call, the answer, the declared intent, the
\* policy files as they were, and the decision
CheckRecord(context, choice, out) ==
    [context |-> context, choice |-> choice, activeIntentId |-> activeIntentId,
     intentsFile |-> intentsFile, orchIgnore |-> orchIgnore, rootIgnore |-> rootIgnore,
     result |-> out.result, prompts |-> out.prompts]

SameCall(r, q) ==
    /\ r.context = q.context
    /\ r.choice = q.choice
    /\ r.activeIntentId = q.activeIntentId

Remember(checks, r) ==
    IF classifyTool(r.context.toolName) # "destructive" THEN <<>>
    ELSE IF checks # <<>> /\ SameCall(checks[Len(checks)], r)
    THEN IF Len(checks) < KeptChecks THEN Append(checks, r) ELSE Append(Tail(checks), r)
    ELSE <<r>>

TaskStores ==
    {[kind |-> "missing", entries |-> <<>>],
     [kind |-> "list", entries |-> <<Intent(Some(IdA), Some(<<SrcGlob>>))>>],
     [kind |-> "list", entries |-> <<Intent(Some(IdA), Some(<<DocsGlob>>))>>],
     [kind |-> "list", entries |-> <<Intent(Some(IdB), None)>>]}

TaskIgnores == {<<None, None>>, <<None, Some(<<<<"intent:", "A">>>>)>>}

TaskContexts ==
    {[toolName |-> "write_to_file",
      toolUse |-> ToolUse([NoArgs EXCEPT !.path = Some(SrcFile)], NoParams),
      askForAuthorization |-> a] : a \in {"yes", "no"}}
    \cup
    {[toolName |-> "read_file", toolUse |-> ToolUse(NoArgs, NoParams),
      askForAuthorization |-> "yes"]}
    \cup
    {[toolName |-> "select_active_intent",
      toolUse |-> ToolUse([NoArgs EXCEPT !.intent_id = i], NoParams),
      askForAuthorization |-> "yes"] : i \in {None, Some(IdA), Some(IdB)}}

\* a new task: no intent is declared
TaskInit ==
    /\ activeIntentId = None
    /\ intentsFile \in TaskStores
    /\ \E ig \in TaskIgnores : orchIgnore = ig[1] /\ rootIgnore = ig[2]
    /\ disk = Disk(Missing)
    /\ pc = "idle"
    /\ call = NoContext
    /\ result = NoResult
    /\ prompts = <<>>
    /\ reads = {}
    /\ pushed = None
    /\ trace = <<>>
    /\ priorTrace = <<>>
    /\ appended = <<>>
    /\ intentMap = Missing
    /\ agentMd = <<>>
    /\ post = NoPost
    /\ history = NoHistory
    /\ running = NoUpdates

\* presentAssistantMessage calls check for a complete tool block; the task remembers it
TaskCheck(context, choice) ==
    /\ pc = "idle"
    /\ LET out == check(context, choice)
       IN  /\ result' = out.result
           /\ prompts' = out.prompts
           /\ reads' = out.reads
           /\ pushed' = pushToolResult(out.result)
           /\ history' = [history EXCEPT !.checks = Remember(@, CheckRecord(context, choice, out)),
                                         !.select = NoSelect]
    /\ call' = context
    /\ pc' = "checked"
    /\ UNCHANGED <<activeIntentId, intentsFile, orchIgnore, rootIgnore, disk>>
    /\ UNCHANGED <<trace, priorTrace, appended, intentMap, agentMd, post, running>>

\* the allowed select_active_intent block is dispatched to SelectActiveIntentTool
Select ==
    /\ pc = "checked"
    /\ call.toolName = "select_active_intent"
    /\ ~result.threw /\ result.allow
    /\ LET out == execute(intentsFile, call.toolUse.nativeArgs.intent_id, activeIntentId)
       IN  /\ activeIntentId' = out.activeIntentId
           /\ pushed' = out.toolResult
           /\ history' = [history EXCEPT
                             !.selected = IF out.outcome = "selected"
                                          THEN call.toolUse.nativeArgs.intent_id ELSE @,
                             !.activeIntent = IF IsSome(out.activeIntent) THEN out.activeIntent
                                              ELSE @,
                             !.select = [made |-> TRUE,
                                         intent_id |-> call.toolUse.nativeArgs.intent_id,
                                         file |-> intentsFile,
                                         activeIntentId |-> activeIntentId,
                                         activeIntent |-> history.activeIntent]]
    /\ pc' = "idle"
    /\ call' = NoContext
    /\ result' = NoResult
    /\ prompts' = <<>>
    /\ reads' = {}
    /\ UNCHANGED <<intentsFile, orchIgnore, rootIgnore, disk>>
    /\ UNCHANGED <<trace, priorTrace, appended, intentMap, agentMd, post, running>>

TaskNext ==
    \/ \E context \in TaskContexts : \E choice \in ModalChoicesFor(context) :
          TaskCheck(context, choice)
    \/ Select
    \/ call.toolName # "select_active_intent" /\ Return
    \/ \E file \in TaskStores : EditIntentsFile(file)
    \/ \E ig \in TaskIgnores : EditIntentIgnore(ig)

TaskSpec == TaskInit /\ [][TaskNext]_vars

-----------------------------------------------------------------------------
(* C24: the two-stage handshake.                                           *)

SelectSucceeded == IsSome(history.selected)

SelectedId == Get(history.selected)

\* the store is a list of entries each of which has an id
StoreWellFormed ==
    /\ intentsFile.kind = "list"
    /\ \A i \in 1..Len(intentsFile.entries) :
          ~intentsFile.entries[i].isNull /\ IsSome(intentsFile.entries[i].id)

SelectedEntries ==
    {i \in 1..Len(intentsFile.entries) : intentsFile.entries[i].id = Some(SelectedId)}

SelectedPresent == StoreWellFormed /\ SelectedEntries # {}

SelectedScope ==
    LET entry == intentsFile.entries[CHOOSE i \in SelectedEntries :
                                        \A j \in SelectedEntries : i <= j]
    IN  IF IsSome(entry.owned_scope) THEN Get(entry.owned_scope) ELSE <<>>

SelectedExcluded ==
    \/ IgnoreFileExcludes(orchIgnore, SelectedId)
    \/ IgnoreFileExcludes(rootIgnore, SelectedId)

\* the checks that remain once the selected intent is found and not excluded
RemainingChecksPass ==
    /\ call.toolName = "write_to_file"
          => \/ ~IsSome(call.toolUse.nativeArgs.intent_id)
             \/ call.toolUse.nativeArgs.intent_id = Some(SelectedId)
    /\ \A i \in 1..Len(Targets) :
          /\ ~TargetIgnored(i)
          /\ SelectedScope = <<>> \/ matchesAnyPattern(Targets[i], SelectedScope)
    /\ ~(/\ call.toolName \in TOOLS_WITH_CONTENT_HASH_CHECK
         /\ SuppliesExpectedDigest
         /\ \E i \in 1..Len(Targets) : TargetStale(i))

\* C24: the two-stage handshake.  In a task, until a select_active_intent call has
\* succeeded every destructive call is blocked unless the override is approved, while
\* read-only tools and select_active_intent itself are always allowed; after a
\* successful select of an intent that is still in the store and not excluded, a
\* destructive call that satisfies the remaining checks is allowed.
C24_TwoStageHandshake ==
    Checked
        => /\ (Destructive /\ ~SelectSucceeded /\ ~OverrideApproved)
                 => (~result.threw /\ ~result.allow)
           /\ ~Destructive => (~result.threw /\ result.allow)
           /\ (Destructive /\ SelectSucceeded /\ SelectedPresent /\ ~SelectedExcluded
                  /\ RemainingChecksPass)
                 => (~result.threw /\ result.allow)

\* after select_active_intent succeeded for A, a write inside the scope of A is allowed
\* without any prompt
C24_Witness ==
    /\ Checked /\ Destructive
    /\ history.selected = Some(IdA)
    /\ SelectedPresent /\ SelectedScope # <<>>
    /\ ~result.threw /\ result.allow
    /\ prompts = <<>>

-----------------------------------------------------------------------------
(* C25: no policy is cached between two checks.                            *)

RecDestructive(r) == classifyTool(r.context.toolName) = "destructive"

\* the override channel answered yes in the remembered check
RecApproved(r) ==
    \E k \in 1..Len(r.prompts) : r.prompts[k].answer \in {"yes", "Approve"}

\* the store of the remembered check holds the intent declared then
RecPresent(r) ==
    /\ IsSome(r.activeIntentId)
    /\ r.intentsFile.kind = "list"
    /\ \E i \in 1..Len(r.intentsFile.entries) :
          ~r.intentsFile.entries[i].isNull /\ r.intentsFile.entries[i].id = r.activeIntentId

RecScope(r) ==
    LET hits == {i \in 1..Len(r.intentsFile.entries) :
                    r.intentsFile.entries[i].id = r.activeIntentId}
        entry == r.intentsFile.entries[CHOOSE i \in hits : \A j \in hits : i <= j]
    IN  IF IsSome(entry.owned_scope) THEN Get(entry.owned_scope) ELSE <<>>

RecTargets(r) == getTargetPathsForTool(r.context.toolName, r.context.toolUse)

\* the exclusion files of the remembered check exclude the intent or a target path
RecExcluded(r) ==
    \/ /\ IsSome(r.activeIntentId)
       /\ \/ IgnoreFileExcludes(r.orchIgnore, Get(r.activeIntentId))
          \/ IgnoreFileExcludes(r.rootIgnore, Get(r.activeIntentId))
    \/ \E i \in 1..Len(RecTargets(r)) :
          matchesAnyPattern(RecTargets(r)[i],
                            readIntentIgnorePolicy(r.orchIgnore, r.rootIgnore).ignoredPathPatterns)

\* the intent of the remembered check does not own one of its target paths
RecOutOfScope(r) ==
    /\ RecPresent(r)
    /\ RecScope(r) # <<>>
    /\ \E i \in 1..Len(RecTargets(r)) : ~matchesAnyPattern(RecTargets(r)[i], RecScope(r))

\* the remembered call carries neither an intent_id of its own nor an expected digest
RecPlain(r) ==
    /\ ~IsSome(r.context.toolUse.nativeArgs.intent_id)
    /\ ~IsSome(r.context.toolUse.nativeArgs.expected_content_hash)

\* C25: check keeps no cached policy.  Every check of a run of identical checks decided
\* from the intent file and the exclusion files as they were at that check: it denied
\* when the declared intent had been removed from the file, its owned_scope narrowed
\* away from the target or an exclusion added, and it allowed when the files, reverted
\* or not, authorized the call.
C25_NoCachedPolicy ==
    \A k \in 1..Len(history.checks) :
        LET r == history.checks[k]
        IN  (RecDestructive(r) /\ ~RecApproved(r) /\ RecPlain(r))
                => /\ ~r.result.threw
                   /\ r.result.allow
                         <=> (RecPresent(r) /\ ~RecExcluded(r) /\ ~RecOutOfScope(r))

\* three identical writes: allowed, denied after the policy files were edited, and
\* allowed again after the edit was reverted
C25_Witness ==
    /\ Len(history.checks) = 3
    /\ \A k \in 1..3 : RecDestructive(history.checks[k]) /\ ~RecApproved(history.checks[k])
    /\ history.checks[1].result.allow
    /\ ~history.checks[2].result.allow
    /\ history.checks[3].result.allow
    /\ history.checks[3].intentsFile = history.checks[1].intentsFile
    /\ history.checks[3].orchIgnore = history.checks[1].orchIgnore
    /\ history.checks[3].rootIgnore = history.checks[1].rootIgnore

-----------------------------------------------------------------------------
(* Spellings of one file.  The checks of the gatekeeper compare the path   *)
(* as it is written in the call; path.resolve gives the file it denotes.   *)

\* src/../docs/a
DocsViaSrc == <<"s", "/", ".", ".", "/">> \o DocsFile

\* the absolute form of docs/a
DocsAbsolute == <<"/">> \o cwd \o <<"/">> \o DocsFile

\* ./docs/a
DotDocsFile == <<".", "/">> \o DocsFile

\* docs/../src/a.t
SrcViaDocs == <<"d", "/", ".", ".", "/">> \o SrcFile

Spellings == {DocsFile, DocsViaSrc, DocsAbsolute, DotDocsFile, SrcFile, SrcViaDocs}

SpellingStores ==
    {[kind |-> "list", entries |-> <<Intent(Some(IdA), s)>>] :
        s \in {None, Some(<<SrcGlob>>), Some(<<DocsGlob>>)}}

SpellingIgnores == {<<None, None>>, <<None, Some(<<DocsFile>>)>>, <<Some(<<SrcGlob>>), None>>}

SpellingContexts ==
    {[toolName |-> t,
      toolUse |-> ToolUse([NoArgs EXCEPT !.path = Some(p)], NoParams),
      askForAuthorization |-> "no"] : t \in {"write_to_file", "apply_diff"}, p \in Spellings}

\* the intent A is declared; the override channel rejects
SpellingInit ==
    /\ activeIntentId = Some(IdA)
    /\ intentsFile \in SpellingStores
    /\ \E ig \in SpellingIgnores : orchIgnore = ig[1] /\ rootIgnore = ig[2]
    /\ disk = Disk(File(<<"1">>))
    /\ pc = "idle"
    /\ call = NoContext
    /\ result = NoResult
    /\ prompts = <<>>
    /\ reads = {}
    /\ pushed = None
    /\ trace = <<>>
    /\ priorTrace = <<>>
    /\ appended = <<>>
    /\ intentMap = Missing
    /\ agentMd = <<>>
    /\ post = NoPost
    /\ history = NoHistory
    /\ running = NoUpdates

SpellingNext ==
    \/ \E context \in SpellingContexts : Check(context, "dismissed")
    \/ Return
    \/ \E file \in SpellingStores : EditIntentsFile(file)
    \/ \E ig \in SpellingIgnores : EditIntentIgnore(ig)
    \/ \E st \in {Missing, File(<<"1">>)} : ExternalWrite(st)

SpellingSpec == SpellingInit /\ [][SpellingNext]_vars

\* the call of the state with its path spelled p
Respelled(p) == [call EXCEPT !.toolUse.nativeArgs.path = Some(p)]

\* the spellings of the file the target path of the call denotes
SameFileSpellings == {p \in Spellings : resolve(p) = resolve(Targets[1])}

\* C31: the scope and exclusion decision depends only on the file a target path denotes:
\* a check of the same call with the path spelled in another way that resolves to the
\* same file under the project root gives the same decision.
C31_SpellingIrrelevant ==
    (Checked /\ Destructive /\ Len(Targets) = 1)
        => \A p \in SameFileSpellings :
              LET other == check(Respelled(p), "dismissed").result
              IN  /\ other.threw = result.threw
                  /\ other.allow = result.allow

\* a spelling that only differs by a leading ./ is decided as the plain one
DotSlashIrrelevant ==
    (Checked /\ Destructive /\ Len(Targets) = 1 /\ Targets[1] = DocsFile)
        => check(Respelled(DotDocsFile), "dismissed").result.allow = result.allow

-----------------------------------------------------------------------------
(* C32: operations without a target path.                                  *)

\* the field of the call, from nativeArgs when it is there and from params otherwise,
\* is missing or blank
FieldBlank(key) ==
    LET value == IF IsSome(call.toolUse.nativeArgs[key]) THEN call.toolUse.nativeArgs[key]
                 ELSE call.toolUse.params[key]
    IN  ~IsSome(value) \/ Trim(Get(value)) = <<>>

\* the call names nothing the path checks could look at
NoTargetPath ==
    \/ call.toolName = "execute_command"
    \/ call.toolName \in {"write_to_file", "apply_diff"} /\ FieldBlank("path")
    \/ call.toolName \in {"edit", "edit_file", "search_replace"} /\ FieldBlank("file_path")
    \/ call.toolName = "apply_patch" /\ MarkerPaths = {}

\* C32: a destructive operation from which no target path can be extracted
\* (execute_command, a write or edit whose path field is missing or blank, a patch
\* without file markers) is allowed under any declared intent that is in the store and
\* not excluded, however narrow the owned_scope of that intent.
C32_NoTargetAllowed ==
    (Checked /\ Destructive /\ NoTargetPath /\ DeclaredInStore /\ ~DeclaredIsExcluded)
        => (~result.threw /\ result.allow)

\* C32 as amended: the same, unless the operation is a write_to_file that carries an
\* intent_id differing from the declared intent; the allow is given without asking
\* the override channel and without reading any target file.
C32_NoTargetAllowedUnlessMismatch ==
    (Checked /\ Destructive /\ NoTargetPath /\ DeclaredInStore /\ ~DeclaredIsExcluded
        /\ ~CallIntentMismatch)
        => /\ ~result.threw /\ result.allow
           /\ prompts = <<>>
           /\ Targets = <<>>
           /\ reads = {IntentsPath, OrchIgnorePath, RootIgnorePath}

\* execute_command with a path argument outside the scope of the declared intent and
\* an expected digest the disk does not have, allowed while path patterns are excluded
C32_Witness ==
    /\ Checked
    /\ call.toolName = "execute_command"
    /\ IsSome(call.toolUse.nativeArgs.path)
    /\ IsSome(call.toolUse.nativeArgs.expected_content_hash)
    /\ DeclaredInStore /\ ~DeclaredIsExcluded
    /\ DeclaredScope # <<>>
    /\ ~matchesAnyPattern(Get(call.toolUse.nativeArgs.path), DeclaredScope)
    /\ IgnoredPatterns # <<>>
    /\ NoTargetPath
    /\ ~result.threw /\ result.allow

-----------------------------------------------------------------------------
(* C33: when the override channel is asked.                                *)

\* the message of the first pending denial, for the denials that can be overridden
OverridableMessage ==
    IF FirstPending \in {1, 2} THEN INTENT_REQUIRED_ERROR
    ELSE IF FirstPending = 3 THEN IntentIgnoredMessage(Get(activeIntentId))
    ELSE IF TargetIgnored(FirstOffending) THEN PathBlockedMessage(Targets[FirstOffending])
    ELSE ScopeViolationMessage(Get(activeIntentId), Targets[FirstOffending])

\* the first pending denial is one the override channel is never asked about
FirstPendingIsFinal ==
    (NoDeclaredIntent \/ StoreSearchEnds) /\ PendingDenials # {} /\ FirstPending \in {4, 6}

-----------------------------------------------------------------------------
(* C34: the effective exclusion policy.                                    *)

\* the trimmed lines of the candidate files that can be read
ReadableLines ==
    UNION {{Trim(Get(f)[i]) : i \in 1..Len(Get(f))} :
              f \in {g \in {orchIgnore, rootIgnore} : IsSome(g)}}

\* neither blank nor a comment
Directives == {l \in ReadableLines : l # <<>> /\ Head(l) # "#"}

\* intent:<ID> lines with a non-empty trimmed ID
IntentDirectives == {l \in Directives : Head(l) = "intent:" /\ Trim(Tail(l)) # <<>>}

ExcludedIntents == {Trim(Tail(l)) : l \in IntentDirectives}

\* every other line is a path pattern
OtherLinePatterns == {normalizePath(l) : l \in Directives \ IntentDirectives}

\* every other line but an intent: line without an ID is a path pattern
PathLinePatterns == {normalizePath(l) : l \in {d \in Directives : Head(d) # "intent:"}}

EffectivePolicy == readIntentIgnorePolicy(orchIgnore, rootIgnore)

EffectivePatterns ==
    {EffectivePolicy.ignoredPathPatterns[i] : i \in 1..Len(EffectivePolicy.ignoredPathPatterns)}

\* the denials for exclusion follow the sets of the policy
ExclusionFollows(intents, patterns) ==
    (Checked /\ Destructive /\ DeclaredInStore /\ ~OverrideApproved)
        => /\ ErrorTypeIs("INTENT_IGNORED") <=> Get(activeIntentId) \in intents
           /\ (IntentChecksPass /\ Targets # <<>>)
                 => /\ (\E pat \in patterns : matchesPattern(Targets[1], pat))
                          => ErrorTypeIs("INTENTIGNORE_PATH_BLOCKED")
                    /\ ErrorTypeIs("INTENTIGNORE_PATH_BLOCKED")
                          => \E i \in 1..Len(Targets) :
                                \E pat \in patterns : matchesPattern(Targets[i], pat)

NeverDeniedForExclusion ==
    ~ErrorTypeIs("INTENT_IGNORED") /\ ~ErrorTypeIs("INTENTIGNORE_PATH_BLOCKED")

\* C34: the effective exclusion policy is the union of the directives of whichever of
\* .orchestration/.intentignore and the root .intentignore can be read: blank lines and
\* # comments contribute nothing, an intent:<ID> line with a non-empty trimmed ID adds
\* to the ignored intents, every other line adds a path pattern; a missing or
\* unreadable file contributes nothing, and when neither file exists no operation is
\* denied for exclusion.
C34_PolicyIsUnion ==
    Checked
        => /\ EffectivePolicy.ignoredIntents = ExcludedIntents
           /\ EffectivePatterns = OtherLinePatterns
           /\ ExclusionFollows(ExcludedIntents, OtherLinePatterns)
           /\ (orchIgnore = None /\ rootIgnore = None) => NeverDeniedForExclusion

\* C34 as amended: the same, an intent: line whose trimmed ID is empty contributing
\* nothing.
C34_PolicyIsUnionOfDirectives ==
    Checked
        => /\ EffectivePolicy.ignoredIntents = ExcludedIntents
           /\ EffectivePatterns = PathLinePatterns
           /\ ExclusionFollows(ExcludedIntents, PathLinePatterns)
           /\ (orchIgnore = None /\ rootIgnore = None) => NeverDeniedForExclusion

\* both files are read: a write under A is blocked by a path line of the root file
\* while the other file contributes a pattern and an excluded intent
C34_Witness ==
    /\ Checked /\ Destructive
    /\ IsSome(orchIgnore) /\ IsSome(rootIgnore)
    /\ ExcludedIntents # {}
    /\ Cardinality(PathLinePatterns) = 2
    /\ DeclaredInStore /\ ~OverrideApproved
    /\ Len(Targets) = 1
    /\ ~matchesAnyPattern(Targets[1], readIntentIgnorePolicy(orchIgnore, None).ignoredPathPatterns)
    /\ ErrorTypeIs("INTENTIGNORE_PATH_BLOCKED")

-----------------------------------------------------------------------------
(* C35: a malformed intent store.                                          *)

\* the content of the store does not yield a well-formed list of intents
MalformedStore ==
    \/ intentsFile.kind \in {"parse_error", "empty", "no_key", "not_a_list"}
    \/ /\ intentsFile.kind = "list"
       /\ \E i \in 1..Len(intentsFile.entries) :
             intentsFile.entries[i].isNull \/ ~IsSome(intentsFile.entries[i].id)

\* C35: a malformed intent policy file is treated as absence: when the content of the
\* store does not yield a well-formed list of intents (parse error, empty document,
\* active_intents that is not a list, entries that are null or lack an id), check on a
\* destructive operation, the override not being approved, returns the missing-intent
\* denial; it never allows and never raises an exception.
C35_MalformedIsAbsence ==
    (Checked /\ Destructive /\ MalformedStore /\ ~OverrideApproved)
        => result = MissingIntentDenial

\* a store that cannot be parsed, is empty or has no active_intents gives the
\* missing-intent denial
UnparsedIsAbsence ==
    (Checked /\ Destructive /\ ~OverrideApproved
        /\ intentsFile.kind \in {"parse_error", "empty", "no_key"})
        => result = MissingIntentDenial

-----------------------------------------------------------------------------
(* Sequential index updates from an empty index, the names of the intents  *)
(* changing in the store between the calls.                                *)

\* an intent whose id reads like the title of A under the name N
IdTitled == IdA \o <<":", " ", "N">>

\* active_intents.yaml: missing; A named N and B with a blank name; A named M; A without
\* a name and B named N
NamingStores ==
    {[kind |-> "missing", entries |-> <<>>],
     [kind |-> "list", entries |-> <<NamedIntent(IdA, Some(<<"N">>)),
                                     NamedIntent(IdB, Some(<<" ">>))>>],
     [kind |-> "list", entries |-> <<NamedIntent(IdA, Some(<<"M">>))>>],
     [kind |-> "list", entries |-> <<NamedIntent(IdA, None), NamedIntent(IdB, Some(<<"N">>))>>]}

NamingParams ==
    {IntentMapParams(IdA, SrcFile), IntentMapParams(IdA, DocsFile),
     IntentMapParams(IdB, SrcFile), IntentMapParams(IdTitled, DocsFile)}

\* the write of the index succeeds or fails
NamingEnvs == {env \in WriteEnvs : env.mkdir}

\* the index does not exist yet
NamingInit ==
    /\ activeIntentId = None
    /\ intentsFile \in NamingStores
    /\ orchIgnore = None /\ rootIgnore = None
    /\ disk = Disk(Missing)
    /\ pc = "idle"
    /\ call = NoContext
    /\ result = NoResult
    /\ prompts = <<>>
    /\ reads = {}
    /\ pushed = None
    /\ priorTrace = <<>>
    /\ trace = <<>>
    /\ appended = <<>>
    /\ intentMap = Missing
    /\ agentMd = <<>>
    /\ post = NoPost
    /\ history = NoHistory
    /\ running = NoUpdates

NamingNext ==
    \/ \E params \in NamingParams : \E env \in NamingEnvs : Update(params, env)
    \/ \E file \in NamingStores : EditIntentsFile(file)

NamingSpec == NamingInit /\ [][NamingNext]_vars

\* the section titles of an index file, in file order
TitlesIn(file) ==
    IF file.exists /\ file.readable THEN parseIntentMap(file.content).order ELSE <<>>

\* the ids of the successful updates made so far
UpdatedIds == {appended[k].params.intent_id : k \in 1..Len(appended)}

\* the sections of the index that belong to the id: titled id or "<id>: <name>"
SectionsOf(id) ==
    {k \in 1..Len(TitlesIn(intentMap)) :
        \/ TitlesIn(intentMap)[k] = id
        \/ IsPrefix(id \o <<":", " ">>, TitlesIn(intentMap)[k])}

\* every updated id has a section, there are as many sections as updated ids, and
\* every title is still where it was when it was created
OneSectionPerIntent ==
    /\ \A id \in UpdatedIds : SectionsOf(id) # {}
    /\ Len(TitlesIn(intentMap)) = Cardinality(UpdatedIds)
    /\ \A k \in 1..Len(appended) : IsPrefix(TitlesIn(IndexAfter(k)), TitlesIn(intentMap))

NoIdExtendsAnother ==
    \A a \in UpdatedIds : \A b \in UpdatedIds : ~IsPrefix(a \o <<":", " ">>, b)

-----------------------------------------------------------------------------
(* C37: sequential updates keep the entries of the index.                  *)

\* the titles of the headings of an index text, in file order
HeadingTitles(text) ==
    LET lines == MapLines(text, <<>>)
        heads == {i \in 1..Len(lines) : IsSectionHeader(lines[i])}
        nth(k) == CHOOSE h \in heads : Cardinality({g \in heads : g <= h}) = k
    IN  [k \in 1..Cardinality(heads) |-> SectionTitle(lines[nth(k)])]

\* the (section title, path) pairs an index text lists: a list item belongs to the
\* nearest heading above it
ListedPairs(text) ==
    LET lines == MapLines(text, <<>>)
        heads == {i \in 1..Len(lines) : IsSectionHeader(lines[i])}
        items == {i \in 1..Len(lines) : IsListItem(lines[i]) /\ \E h \in heads : h < i}
        above(i) == CHOOSE h \in heads : h < i /\ \A g \in heads : g < i => g <= h
    IN  {<<SectionTitle(lines[above(i)]), ItemPath(lines[i])>> : i \in items}

\* the index the last successful update read
ReadIndex == appended[Len(appended)].before

\* the last call was an update that replaced an index it could read
IndexRewritten ==
    /\ IndexCalled /\ post.wrote
    /\ ReadIndex.exists /\ ReadIndex.readable

\* the title is one the update's intent may have: the id or "<id>: <name>"
TitleOfUpdatedIntent(title) ==
    \/ title = post.params.intent_id
    \/ IsPrefix(post.params.intent_id \o <<":", " ">>, title)

\* C37: sequential updates never lose index entries: for an index written by an
\* update or edited by hand in the same format, every (section, path) pair listed
\* before an update is listed under the same section title after it, the order of the
\* sections is unchanged, and the only addition is the new (intent, path) fact.
C37_UpdateKeepsEntries ==
    IndexRewritten
        => LET before == ReadIndex.content
               after == intentMap.content
               added == ListedPairs(after) \ ListedPairs(before)
           IN  /\ ListedPairs(before) \subseteq ListedPairs(after)
               /\ IsPrefix(HeadingTitles(before), HeadingTitles(after))
               /\ Len(HeadingTitles(after)) <= Len(HeadingTitles(before)) + 1
               /\ Cardinality(added) <= 1
               /\ \A pair \in added :
                     pair[2] = post.params.path /\ TitleOfUpdatedIntent(pair[1])
               /\ \E pair \in ListedPairs(after) :
                     pair[2] = post.params.path /\ TitleOfUpdatedIntent(pair[1])

\* no title comes twice among the headings of the text
TitlesDistinct(text) ==
    \A i \in 1..Len(HeadingTitles(text)) : \A j \in 1..Len(HeadingTitles(text)) :
        HeadingTitles(text)[i] = HeadingTitles(text)[j] => i = j

\* an index whose headings are all different keeps its pairs and the order of its
\* sections
DistinctSectionsKept ==
    (IndexRewritten /\ TitlesDistinct(ReadIndex.content))
        => /\ ListedPairs(ReadIndex.content) \subseteq ListedPairs(intentMap.content)
           /\ IsPrefix(HeadingTitles(ReadIndex.content), HeadingTitles(intentMap.content))

-----------------------------------------------------------------------------
(* C38: the digest a trace record carries.                                 *)

\* the target of the last trace call as the disk holds it when the call is made
TracedTarget == FileAt(disk, resolve(post.params.path))

\* the content whose digest the record of the last trace call is due to carry
ContentAtRecord ==
    IF TracedTarget.exists /\ TracedTarget.readable THEN TracedTarget.content ELSE FallbackContent

\* C38: the digest in a ledger record is the digest of the target file's content as read
\* from disk when the trace call is made; when that read fails it is the digest of the
\* content the caller supplied (of the empty text when none was supplied), and the record
\* is still appended: a failed read never keeps the record from the ledger.
C38_DigestOfContentAtRecord ==
    /\ (TraceCalled /\ post.wrote)
          => /\ JsonValid(LastTraceLine)
             /\ JsonMember(LastTraceLine, "\"content_hash\":")
                   = JsonStr(contentHashSha256(ContentAtRecord))
    /\ (TraceCalled /\ "read" \in post.faults /\ post.faults \cap {"mkdir", "append"} = {})
          => /\ post.wrote
             /\ Cardinality(Appends) = 1

\* the target is missing and the caller supplied no content: the record is appended with
\* the digest of the empty text
C38_Witness ==
    /\ TraceCalled
    /\ "read" \in post.faults
    /\ post.params.text = None
    /\ post.wrote
    /\ JsonMember(LastTraceLine, "\"content_hash\":") = JsonStr(contentHashSha256(<<>>))

-----------------------------------------------------------------------------
(* C39: what select_active_intent does to the task's declared intent.      *)
(* A new task dispatches select_active_intent blocks while the intent      *)
(* store is edited between them.                                           *)

SelectStores ==
    {[kind |-> k, entries |-> <<>>] : k \in {"missing", "unreadable", "parse_error", "not_a_list"}}
    \cup
    {[kind |-> "list", entries |-> e] :
        e \in {<<Intent(Some(IdA), Some(<<SrcGlob>>))>>,
               <<Intent(Some(IdB), None)>>,
               <<NullEntry, Intent(Some(IdA), Some(<<SrcGlob>>))>>,
               <<Intent(Some(IdA), Some(<<DocsGlob>>)), Intent(Some(IdA), Some(<<SrcGlob>>))>>}}

SelectContexts ==
    {[toolName |-> "select_active_intent",
      toolUse |-> ToolUse([NoArgs EXCEPT !.intent_id = i], NoParams),
      askForAuthorization |-> "yes"] : i \in {None, Some(<<>>), Some(IdA), Some(IdB)}}

SelectInit ==
    /\ activeIntentId = None
    /\ intentsFile \in SelectStores
    /\ orchIgnore = None /\ rootIgnore = None
    /\ disk = Disk(Missing)
    /\ pc = "idle"
    /\ call = NoContext
    /\ result = NoResult
    /\ prompts = <<>>
    /\ reads = {}
    /\ pushed = None
    /\ trace = <<>>
    /\ priorTrace = <<>>
    /\ appended = <<>>
    /\ intentMap = Missing
    /\ agentMd = <<>>
    /\ post = NoPost
    /\ history = NoHistory
    /\ running = NoUpdates

SelectNext ==
    \/ \E context \in SelectContexts : TaskCheck(context, "dismissed")
    \/ Select
    \/ \E file \in SelectStores : EditIntentsFile(file)

SelectSpec == SelectInit /\ [][SelectNext]_vars

\* the last select_active_intent call: what it asked for and the store it found
Asked == history.select

NoIdGiven == ~IsSome(Asked.intent_id) \/ Get(Asked.intent_id) = <<>>

StoreUnusable == Asked.file.kind \in {"missing", "unreadable", "parse_error"}

AskedEntries == IF Asked.file.kind = "list" THEN Asked.file.entries ELSE <<>>

\* the entries of the store that carry the requested id
AskedMatches ==
    {i \in 1..Len(AskedEntries) :
        ~AskedEntries[i].isNull /\ AskedEntries[i].id = Asked.intent_id}

FirstAskedMatch == CHOOSE i \in AskedMatches : \A j \in AskedMatches : i <= j

\* the call fails: no id is given, the file cannot be read or parsed, or no entry has the id
SelectFails == NoIdGiven \/ StoreUnusable \/ AskedMatches = {}

\* the search stops at a null entry before it reaches the entry: the call ends in handleError
SelectStopsAtNull ==
    /\ ~SelectFails
    /\ \E j \in 1..(FirstAskedMatch - 1) : AskedEntries[j].isNull

DeclaredUnchanged ==
    /\ activeIntentId = Asked.activeIntentId
    /\ history.activeIntent = Asked.activeIntent

\* C39: a select_active_intent call that fails (no intent_id, intent file unreadable or
\* unparsable, id not found in the file) leaves activeIntentId and activeIntent of the task
\* as they were; a successful call sets activeIntentId to exactly the requested id and
\* activeIntent to the matching store entry.
C39_SelectSetsOnlyOnSuccess ==
    Asked.made
        => /\ SelectFails => DeclaredUnchanged
           /\ SelectStopsAtNull => DeclaredUnchanged
           /\ (~SelectFails /\ ~SelectStopsAtNull)
                 => /\ activeIntentId = Asked.intent_id
                    /\ history.activeIntent = Some(AskedEntries[FirstAskedMatch])

\* the task had declared A; a call for B, which the store does not list, left A declared
C39_Witness ==
    /\ Asked.made
    /\ Asked.intent_id = Some(IdB)
    /\ Asked.file.kind = "list"
    /\ AskedMatches = {}
    /\ Asked.activeIntentId = Some(IdA)
    /\ activeIntentId = Some(IdA)
    /\ IsSome(history.activeIntent)
    /\ Get(history.activeIntent).id = Some(IdA)

-----------------------------------------------------------------------------
(* C40: check writes nothing.                                              *)

\* a step in which check runs for a tool block
CheckStep == pc = "idle" /\ pc' = "checked"

\* C40: check writes nothing: whatever the call and however it ends (allowed, denied,
\* overridden, thrown), the step leaves the intent store, the exclusion files, the ledger,
\* the index, the lessons file, the target files and the declared intent of the caller
\* as they were.
C40_CheckWritesNothing ==
    [][CheckStep => UNCHANGED <<intentsFile, orchIgnore, rootIgnore, trace, intentMap, agentMd,
                               disk, activeIntentId>>]_vars

\* a destructive call has been checked and denied, after the store, the exclusion files
\* and the target's digest were consulted
C40_Witness ==
    /\ Checked
    /\ classifyTool(call.toolName) = "destructive"
    /\ IsSome(activeIntentId)
    /\ intentsFile.kind = "list"
    /\ IsSome(orchIgnore)
    /\ ~result.threw
    /\ ~result.allow
    /\ prompts # <<>>
    /\ IntentsPath \in reads

====
